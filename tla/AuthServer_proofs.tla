-------------------------- MODULE AuthServer_proofs ---------------------------
(***************************************************************************)
(* Proofs about the account database and the authentication server, for    *)
(* every set of accounts, sessions, names and passwords and every bound.   *)
(*                                                                         *)
(* The database: every call changes a row in one of a few ways (RowStep),  *)
(* creates at most one row, under a name nobody has (NamesStep), and opens *)
(* at most one session, of an account that is then active (SessionStep).   *)
(* Its invariants follow from these three facts.                           *)
(*                                                                         *)
(* The server: for every number of slots, jobs, crashes and database       *)
(* failures, the daemon keeps hold of every session and every pending      *)
(* identity it created, and opens a session only for the peer that earned  *)
(* it.                                                                     *)
(*                                                                         *)
(* The state of a connection and its attempts go together (Sound): a       *)
(* login, a registration and a session exclude each other even while the   *)
(* connection is closing, so that nothing is overwritten that client_reset *)
(* would have to release.  A password job carries what the peer typed last *)
(* (Answers), and a login or registration names an account of that login   *)
(* name.                                                                   *)
(***************************************************************************)
EXTENDS AuthServer, FiniteSetTheorems, TLAPS

-----------------------------------------------------------------------------
(* THE ACCOUNT DATABASE *)

(* What a step may do to a row. *)

Born(old, new) ==
    /\ old.status = "absent"
    /\ \E l \in Logins, p \in Passwords : new = NewRow("pending", l, p, "pending_legacy")

Activated(old, new) ==
    /\ old.status = "pending" /\ ~old.expired
    /\ new = [old EXCEPT !.status = "active", !.role = TRUE, !.version = @ + 1,
                         !.attempt = "completed"]

Removed(old, new) ==
    /\ old.status = "pending"
    /\ \E v \in {"aborted", "failed"} : new = Deleted(old, v)

Counted(old, new) ==
    \E n \in 0 .. CountLimit, b \in BOOLEAN :
        new = [old EXCEPT !.failures = n, !.throttled = b]

Lapsed(old, new) == new = [old EXCEPT !.expired = TRUE]

Administered(old, new) ==
    /\ old.status \in {"active", "disabled"}
    /\ \E s \in {"active", "disabled"}, p \in Passwords, r \in BOOLEAN, v \in Nat :
          new = [old EXCEPT !.status = s, !.password = p, !.role = r, !.version = v]

Altered(old, new) ==
    \/ new = old
    \/ Activated(old, new) \/ Removed(old, new) \/ Counted(old, new)
    \/ Lapsed(old, new) \/ Administered(old, new)

RowStep(old, new) == Born(old, new) \/ Altered(old, new)

(* A step alters rows, or creates one that passed the tests of Begin. *)
RowsStep ==
    /\ account' = [u \in Accounts |-> account'[u]]
    /\ \/ \A u \in Accounts : Altered(account[u], account'[u])
       \/ \E b \in Accounts :
             /\ Born(account[b], account'[b])
             /\ \A u \in Accounts \ {b} : account'[u] = account[u]
             /\ ~NameTaken(account'[b].login)
             /\ Cardinality(LiveAttempts) < MaxPending

(* A session is opened for an account that is then active, or closed. *)
SessionStep(old, new) ==
    \/ new = old
    \/ \E u \in Accounts :
          /\ account[u].status \in {"pending", "active"}
          /\ account'[u].status = "active"
          /\ new = [state |-> "open", user |-> u]
    \/ old.state = "open" /\ new = [old EXCEPT !.state = "closed"]

SessionsStep ==
    /\ session' = [s \in Sessions |-> session'[s]]
    /\ \A s \in Sessions : SessionStep(session[s], session'[s])

Amended(u, row) == account' = [account EXCEPT ![u] = row]
-----------------------------------------------------------------------------
(* A row with these fields. *)
Fields(s, l, p, b, r, v, f, t, a, e) ==
    [status |-> s, login |-> l, password |-> p, binding |-> b, role |-> r,
     version |-> v, failures |-> f, throttled |-> t, attempt |-> a, expired |-> e]

LEMMA FieldsType ==
    ASSUME NEW s \in Standing, NEW l \in Logins \cup {None},
           NEW p \in Passwords \cup {None}, NEW b \in BOOLEAN, NEW r \in BOOLEAN,
           NEW v \in Nat, NEW f \in 0 .. CountLimit, NEW t \in BOOLEAN,
           NEW a \in AttemptState, NEW e \in BOOLEAN
    PROVE  Fields(s, l, p, b, r, v, f, t, a, e) \in Row
  BY DEF Fields, Row

LEMMA RowFields ==
    ASSUME NEW old \in Row
    PROVE  /\ old.status \in Standing /\ old.login \in Logins \cup {None}
           /\ old.password \in Passwords \cup {None} /\ old.binding \in BOOLEAN
           /\ old.role \in BOOLEAN /\ old.version \in Nat
           /\ old.failures \in 0 .. CountLimit /\ old.throttled \in BOOLEAN
           /\ old.attempt \in AttemptState /\ old.expired \in BOOLEAN
  BY DEF Row

LEMMA RowStepType ==
    ASSUME NEW old \in Row, NEW new, RowStep(old, new)
    PROVE  new \in Row
<1>1. CASE Born(old, new)
  BY <1>1, StoreAssumption DEF Born, NewRow, Row, Standing, AttemptState
<1>2. CASE Activated(old, new)
  <2>1. new = Fields("active", old.login, old.password, old.binding, TRUE,
                     old.version + 1, old.failures, old.throttled, "completed",
                     old.expired)
    BY <1>2 DEF Activated, Fields, Row
  <2>2. "active" \in Standing /\ "completed" \in AttemptState /\ old.version + 1 \in Nat
    BY RowFields DEF Standing, AttemptState
  <2> QED
    BY <2>1, <2>2, RowFields, FieldsType
<1>3. CASE Removed(old, new)
  <2>1. PICK v \in {"aborted", "failed"} : new = Deleted(old, v)
    BY <1>3 DEF Removed
  <2>2. new = Fields("deleted", old.login, None, FALSE, FALSE, old.version + 1, 0,
                     old.throttled, v, old.expired)
    BY <2>1 DEF Deleted, Fields, Row
  <2>3. /\ "deleted" \in Standing /\ v \in AttemptState /\ old.version + 1 \in Nat
        /\ 0 \in 0 .. CountLimit
    BY RowFields, StoreAssumption DEF Standing, AttemptState
  <2> QED
    BY <2>2, <2>3, RowFields, FieldsType
<1>4. CASE Counted(old, new)
  BY <1>4 DEF Counted, Row
<1>5. CASE Lapsed(old, new)
  BY <1>5 DEF Lapsed, Row
<1>6. CASE Administered(old, new)
  <2>1. PICK s \in {"active", "disabled"}, p \in Passwords, r \in BOOLEAN, v \in Nat :
            new = [old EXCEPT !.status = s, !.password = p, !.role = r, !.version = v]
    BY <1>6 DEF Administered
  <2>2. new = Fields(s, old.login, p, old.binding, r, v, old.failures, old.throttled,
                     old.attempt, old.expired)
    BY <2>1 DEF Fields, Row
  <2>3. s \in Standing
    BY DEF Standing
  <2> QED
    BY <2>2, <2>3, RowFields, FieldsType
<1> QED
  BY <1>1, <1>2, <1>3, <1>4, <1>5, <1>6 DEF RowStep, Altered

(* One conjunct of Coherent. *)
RowCoherent(row) ==
    /\ row.status = "absent" <=> row.login = None
    /\ row.status = "pending" <=> row.attempt = "pending_legacy"
    /\ row.status = "deleted" <=> row.attempt \in {"aborted", "failed"}
    /\ row.binding <=> row.status \notin {"absent", "deleted"}
    /\ row.binding <=> row.password # None
    /\ row.role => row.status \in {"active", "disabled"}

LEMMA RowStepCoherent ==
    ASSUME NEW old \in Row, NEW new, RowStep(old, new), RowCoherent(old)
    PROVE  RowCoherent(new)
<1> USE StoreAssumption DEF Row, Standing, AttemptState, RowCoherent
<1>1. CASE Born(old, new)
  <2>1. PICK l \in Logins, p \in Passwords :
            new = NewRow("pending", l, p, "pending_legacy")
    BY <1>1 DEF Born
  <2>2. /\ new.status = "pending" /\ new.login = l /\ new.password = p
        /\ new.binding = TRUE /\ new.role = FALSE /\ new.attempt = "pending_legacy"
    BY <2>1 DEF NewRow
  <2> QED
    BY <2>2
<1>2. CASE Activated(old, new)
  BY <1>2 DEF Activated
<1>3. CASE Removed(old, new)
  BY <1>3 DEF Removed, Deleted
<1>4. CASE Counted(old, new)
  BY <1>4 DEF Counted
<1>5. CASE Lapsed(old, new)
  BY <1>5 DEF Lapsed
<1>6. CASE Administered(old, new)
  BY <1>6 DEF Administered
<1> QED
  BY <1>1, <1>2, <1>3, <1>4, <1>5, <1>6 DEF RowStep, Altered

(* How the status of a row may move. *)
LEMMA RowStepStatus ==
    ASSUME NEW old \in Row, NEW new, RowStep(old, new)
    PROVE  /\ old.status \in {"active", "disabled"}
                => new.status \in {"active", "disabled"}
           /\ old.status = "pending" /\ old.expired
                => new.status \in {"pending", "deleted"}
           /\ old.status = "deleted" => new.status = "deleted"
           /\ old.status = "absent" => new.status \in {"absent", "pending"}
           /\ old.status = "pending" => new.status \in {"pending", "active", "deleted"}
<1> USE DEF Row, Standing
<1>1. CASE Born(old, new)
  BY <1>1 DEF Born, NewRow
<1>2. CASE Activated(old, new)
  BY <1>2 DEF Activated
<1>3. CASE Removed(old, new)
  BY <1>3 DEF Removed, Deleted
<1>4. CASE Counted(old, new)
  BY <1>4 DEF Counted
<1>5. CASE Lapsed(old, new)
  BY <1>5 DEF Lapsed
<1>6. CASE Administered(old, new)
  BY <1>6 DEF Administered
<1> QED
  BY <1>1, <1>2, <1>3, <1>4, <1>5, <1>6 DEF RowStep, Altered

(* An altered row keeps its name and is not revived. *)
LEMMA AlteredKeeps ==
    ASSUME NEW old \in Row, NEW new, Altered(old, new)
    PROVE  /\ new.login = old.login
           /\ new.status = "pending" => old.status = "pending"
           /\ old.expired => new.expired
           /\ old.status \in {"absent", "deleted"} => new.status = old.status
<1> USE DEF Row, Standing
<1>2. CASE Activated(old, new)
  BY <1>2 DEF Activated
<1>3. CASE Removed(old, new)
  BY <1>3 DEF Removed, Deleted
<1>4. CASE Counted(old, new)
  BY <1>4 DEF Counted
<1>5. CASE Lapsed(old, new)
  BY <1>5 DEF Lapsed
<1>6. CASE Administered(old, new)
  BY <1>6 DEF Administered
<1> QED
  BY <1>2, <1>3, <1>4, <1>5, <1>6 DEF Altered
-----------------------------------------------------------------------------
(* What each call does, in these terms. *)

(* Nothing happens to accounts and sessions. *)
LEMMA NothingStep ==
    ASSUME StoreTypeOK, UNCHANGED <<account, session>>
    PROVE  RowsStep /\ SessionsStep
  BY DEF StoreTypeOK, RowsStep, Altered, SessionsStep, SessionStep

LEMMA SameSessions ==
    ASSUME StoreTypeOK, session' = session
    PROVE  SessionsStep
  BY DEF StoreTypeOK, SessionsStep, SessionStep

(* One row is altered. *)
LEMMA AmendStep ==
    ASSUME StoreTypeOK, NEW u \in Accounts, NEW row, Amended(u, row),
           Altered(account[u], row)
    PROVE  RowsStep
<1>1. ASSUME NEW v \in Accounts
      PROVE  Altered(account[v], account'[v])
  <2>1. account'[v] = IF v = u THEN row ELSE account[v]
    BY DEF Amended, StoreTypeOK
  <2> QED
    BY <2>1 DEF Altered
<1>2. account' = [v \in Accounts |-> account'[v]]
  BY DEF Amended, StoreTypeOK
<1> QED
  BY <1>1, <1>2 DEF RowsStep

LEMMA BeginStep ==
    ASSUME StoreTypeOK, NEW l \in Logins, NEW p \in Passwords, NEW u \in Accounts,
           NEW o \in Outcome, BeginRegistration(l, p, u, o)
    PROVE  RowsStep /\ SessionsStep
<1>1. CASE Executed(o) /\ BeginVerdict(l) = "ok"
  <2> DEFINE row == NewRow("pending", l, p, "pending_legacy")
  <2>1. account' = [account EXCEPT ![u] = row] /\ account[u].status = "absent"
    BY <1>1 DEF BeginRegistration
  <2>2. account'[u] = row /\ \A v \in Accounts \ {u} : account'[v] = account[v]
    BY <2>1 DEF StoreTypeOK
  <2>3. row.login = l
    BY DEF NewRow
  <2>4. Cardinality(LiveAttempts) < MaxPending /\ ~NameTaken(l)
    <3>1. LiveAttempts \subseteq Accounts
      BY DEF LiveAttempts
    <3>2. Cardinality(LiveAttempts) \in Nat /\ MaxPending \in Nat
      BY <3>1, StoreAssumption, FS_Subset, FS_CardinalityType
    <3> QED
      BY <1>1, <3>2 DEF BeginVerdict
  <2>5. Born(account[u], account'[u])
    BY <2>1, <2>2 DEF Born
  <2>6. account' = [v \in Accounts |-> account'[v]]
    BY <2>1 DEF StoreTypeOK
  <2>7. RowsStep
    BY <2>2, <2>3, <2>4, <2>5, <2>6 DEF RowsStep
  <2>8. SessionsStep
    BY SameSessions DEF BeginRegistration
  <2> QED
    BY <2>7, <2>8
<1>2. CASE ~(Executed(o) /\ BeginVerdict(l) = "ok")
  <2>1. UNCHANGED <<account, session>>
    BY <1>2 DEF BeginRegistration
  <2> QED
    BY <2>1, NothingStep
<1> QED
  BY <1>1, <1>2

LEMMA OpenStep ==
    ASSUME StoreTypeOK, NEW u \in Accounts, NEW s \in Sessions,
           session' = Opened(u, s), account[u].status \in {"pending", "active"},
           account'[u].status = "active"
    PROVE  SessionsStep
<1>1. ASSUME NEW t \in Sessions
      PROVE  SessionStep(session[t], session'[t])
  <2>1. session'[t] = IF t = s THEN [state |-> "open", user |-> u] ELSE session[t]
    BY DEF Opened, StoreTypeOK
  <2> QED
    BY <2>1 DEF SessionStep
<1>2. session' = [t \in Sessions |-> session'[t]]
  BY DEF Opened, StoreTypeOK
<1> QED
  BY <1>1, <1>2 DEF SessionsStep

LEMMA CommitStep ==
    ASSUME StoreTypeOK, NEW u \in Accounts, NEW v \in Nat, NEW s \in Sessions,
           NEW o \in Outcome, CommitRegistration(u, v, s, o)
    PROVE  RowsStep /\ SessionsStep
<1>1. CASE Executed(o) /\ Committable(u, v)
  <2> DEFINE row == [account[u] EXCEPT !.status = "active", !.role = TRUE,
                                       !.version = @ + 1, !.attempt = "completed"]
  <2>1. account' = [account EXCEPT ![u].status = "active", ![u].role = TRUE,
                                   ![u].version = @ + 1, ![u].attempt = "completed"]
    BY <1>1 DEF CommitRegistration
  <2>2. Amended(u, row)
    BY <2>1 DEF Amended, StoreTypeOK, Row
  <2>3. account[u].status = "pending" /\ ~account[u].expired
    BY <1>1 DEF Committable, Pending
  <2>4. Altered(account[u], row)
    BY <2>3 DEF Altered, Activated
  <2>5. account'[u].status = "active"
    BY <2>2 DEF Amended, StoreTypeOK, Row
  <2>6. session' = Opened(u, s)
    BY <1>1 DEF CommitRegistration
  <2> QED
    BY <2>2, <2>3, <2>4, <2>5, <2>6, AmendStep, OpenStep
<1>2. CASE ~(Executed(o) /\ Committable(u, v))
  <2>1. UNCHANGED <<account, session>>
    BY <1>2 DEF CommitRegistration
  <2> QED
    BY <2>1, NothingStep
<1> QED
  BY <1>1, <1>2

LEMMA WithdrawStep ==
    ASSUME StoreTypeOK, NEW U \in SUBSET Accounts, NEW verdict \in {"aborted", "failed"},
           \A u \in U : Pending(u), account' = Withdrawn(U, verdict), session' = session
    PROVE  RowsStep /\ SessionsStep
<1>1. ASSUME NEW u \in Accounts
      PROVE  Altered(account[u], account'[u])
  <2>1. account'[u] = IF u \in U THEN Deleted(account[u], verdict) ELSE account[u]
    BY DEF Withdrawn
  <2> QED
    BY <2>1 DEF Altered, Removed, Pending
<1>2. account' = [u \in Accounts |-> account'[u]]
  BY DEF Withdrawn
<1> QED
  BY <1>1, <1>2, SameSessions DEF RowsStep

LEMMA AbortStep ==
    ASSUME StoreTypeOK, NEW u \in Accounts, NEW o \in Outcome, AbortRegistration(u, o)
    PROVE  RowsStep /\ SessionsStep
<1>1. CASE Executed(o) /\ Pending(u)
  <2>1. account' = Withdrawn({u}, "aborted") /\ session' = session
    BY <1>1 DEF AbortRegistration
  <2> QED
    BY <1>1, <2>1, WithdrawStep
<1>2. CASE ~(Executed(o) /\ Pending(u))
  <2>1. UNCHANGED <<account, session>>
    BY <1>2 DEF AbortRegistration
  <2> QED
    BY <2>1, NothingStep
<1> QED
  BY <1>1, <1>2

LEMMA ExpireStep ==
    ASSUME StoreTypeOK, NEW o \in Outcome, ExpireRegistrations(o)
    PROVE  RowsStep /\ SessionsStep
<1> DEFINE U == {u \in Accounts : Pending(u) /\ account[u].expired}
<1>1. CASE Executed(o)
  <2>1. account' = Withdrawn(U, "failed") /\ session' = session
    BY <1>1 DEF ExpireRegistrations
  <2>2. U \in SUBSET Accounts /\ \A u \in U : Pending(u)
    OBVIOUS
  <2> HIDE DEF U
  <2> QED
    BY <2>1, <2>2, WithdrawStep
<1>2. CASE ~Executed(o)
  <2>1. UNCHANGED <<account, session>>
    BY <1>2 DEF ExpireRegistrations
  <2> QED
    BY <2>1, NothingStep
<1> QED
  BY <1>1, <1>2

(* failed_count and throttled_until change. *)
LEMMA CountStep ==
    ASSUME StoreTypeOK, NEW u \in Accounts, NEW n \in 0 .. CountLimit, NEW b \in BOOLEAN,
           account' = [account EXCEPT ![u].failures = n, ![u].throttled = b]
    PROVE  RowsStep /\ account'[u].status = account[u].status
<1> DEFINE row == [account[u] EXCEPT !.failures = n, !.throttled = b]
<1>1. Amended(u, row)
  BY DEF Amended, StoreTypeOK, Row
<1>2. Altered(account[u], row)
  BY DEF Altered, Counted
<1>3. account'[u].status = account[u].status
  BY <1>1 DEF Amended, StoreTypeOK, Row
<1> QED
  BY <1>1, <1>2, <1>3, AmendStep

LEMMA LoginStep ==
    ASSUME StoreTypeOK, NEW u \in Accounts, NEW v \in Nat,
           NEW p \in Passwords \cup {None}, NEW s \in Sessions, NEW o \in Outcome,
           CreatePasswordSession([user |-> u, version |-> v, password |-> p], s, o)
    PROVE  RowsStep /\ SessionsStep
<1> DEFINE snap == [user |-> u, version |-> v, password |-> p]
<1>1. CASE Executed(o) /\ Current(snap)
  <2>1. account' = [account EXCEPT ![u].failures = 0]
    BY <1>1 DEF CreatePasswordSession
  <2>2. account' = [account EXCEPT ![u].failures = 0, ![u].throttled = account[u].throttled]
    BY <2>1 DEF StoreTypeOK, Row
  <2>3. 0 \in 0 .. CountLimit /\ account[u].throttled \in BOOLEAN
    BY StoreAssumption DEF StoreTypeOK, Row
  <2>4. RowsStep /\ account'[u].status = account[u].status
    BY <2>2, <2>3, CountStep
  <2>5. account[u].status = "active"
    BY <1>1 DEF Current
  <2>6. session' = Opened(u, s) \/ session' = session
    BY DEF CreatePasswordSession
  <2> QED
    BY <2>4, <2>5, <2>6, OpenStep, SameSessions
<1>2. CASE ~(Executed(o) /\ Current(snap))
  <2>1. UNCHANGED <<account, session>>
    BY <1>2 DEF CreatePasswordSession, SessionVerdict
  <2> QED
    BY <2>1, NothingStep
<1> QED
  BY <1>1, <1>2

LEMMA FailureStep ==
    ASSUME StoreTypeOK, NEW u \in Accounts, NEW o \in Outcome, RecordPasswordFailure(u, o)
    PROVE  RowsStep /\ SessionsStep
<1>1. PICK n \in {1, account[u].failures + 1} :
          account' = IF Executed(o) /\ account[u].password # None
                     THEN [account EXCEPT
                             ![u].failures = IF n > CountLimit THEN CountLimit ELSE n,
                             ![u].throttled = @ \/ n >= Threshold]
                     ELSE account
  BY DEF RecordPasswordFailure
<1>2. session' = session
  BY DEF RecordPasswordFailure
<1>3. CASE Executed(o) /\ account[u].password # None
  <2> DEFINE f == IF n > CountLimit THEN CountLimit ELSE n
             t == account[u].throttled \/ n >= Threshold
  <2>1. account' = [account EXCEPT ![u].failures = f, ![u].throttled = t]
    BY <1>1, <1>3 DEF StoreTypeOK, Row
  <2>2. f \in 0 .. CountLimit /\ t \in BOOLEAN
    BY StoreAssumption DEF StoreTypeOK, Row
  <2> HIDE DEF f, t
  <2>3. RowsStep
    BY <2>1, <2>2, CountStep
  <2> QED
    BY <1>2, <2>3, SameSessions
<1>4. CASE ~(Executed(o) /\ account[u].password # None)
  BY <1>1, <1>2, <1>4, NothingStep
<1> QED
  BY <1>3, <1>4

LEMMA CloseStep ==
    ASSUME StoreTypeOK, NEW s \in Sessions, NEW o \in Outcome, CloseTerminalSession(s, o)
    PROVE  RowsStep /\ SessionsStep
<1>1. account' = account
  BY DEF CloseTerminalSession
<1>2. ASSUME NEW t \in Sessions
      PROVE  SessionStep(session[t], session'[t])
  BY DEF CloseTerminalSession, SessionStep, StoreTypeOK, SessionRow
<1>3. session' = [t \in Sessions |-> session'[t]]
  BY DEF CloseTerminalSession, StoreTypeOK
<1>4. account' = [u \in Accounts |-> account'[u]]
  BY <1>1 DEF StoreTypeOK
<1> QED
  BY <1>1, <1>2, <1>3, <1>4 DEF RowsStep, Altered, SessionsStep

LEMMA WorldStep ==
    ASSUME StoreTypeOK, World
    PROVE  RowsStep /\ SessionsStep
<1>1. ASSUME NEW u \in Accounts, Elapse(u)
      PROVE  RowsStep /\ session' = session
  <2> DEFINE row == [account[u] EXCEPT !.expired = TRUE]
  <2>1. Amended(u, row)
    BY <1>1 DEF Elapse, Amended, StoreTypeOK, Row
  <2>2. Altered(account[u], row)
    BY DEF Altered, Lapsed
  <2> QED
    BY <1>1, <2>1, <2>2, AmendStep DEF Elapse
<1>2. ASSUME NEW u \in Accounts, ThrottleEnds(u)
      PROVE  RowsStep /\ session' = session
  <2>1. account' = [account EXCEPT ![u].failures = account[u].failures,
                                   ![u].throttled = FALSE]
    BY <1>2 DEF ThrottleEnds, StoreTypeOK, Row
  <2>2. account[u].failures \in 0 .. CountLimit
    BY DEF StoreTypeOK, Row
  <2> QED
    BY <1>2, <2>1, <2>2, CountStep DEF ThrottleEnds
<1>3. ASSUME NEW u \in Accounts, Administer(u)
      PROVE  RowsStep /\ session' = session
  <2>1. PICK s \in {"active", "disabled"}, p \in Passwords, r \in BOOLEAN,
             v \in {account[u].version, account[u].version + 1} :
          account' = [account EXCEPT ![u].status = s, ![u].password = p,
                                     ![u].role = r, ![u].version = v]
    BY <1>3, ZenonT(60) DEF Administer
  <2> DEFINE row == [account[u] EXCEPT !.status = s, !.password = p, !.role = r,
                                       !.version = v]
  <2>2. Amended(u, row)
    BY <2>1 DEF Amended, StoreTypeOK, Row
  <2>3. v \in Nat
    BY DEF StoreTypeOK, Row
  <2>4. Altered(account[u], row)
    BY <1>3, <2>3 DEF Altered, Administered, Administer
  <2> QED
    BY <1>3, <2>2, <2>4, AmendStep DEF Administer
<1>4. ASSUME LinkBreaks
      PROVE  RowsStep /\ session' = session
  BY <1>4, NothingStep DEF LinkBreaks
<1>5. RowsStep /\ session' = session
  BY <1>1, <1>2, <1>3, <1>4 DEF World
<1> QED
  BY <1>5, SameSessions

(* Every step of the database is of this kind. *)
LEMMA EveryStep ==
    ASSUME StoreTypeOK, [StoreNext]_storeVars
    PROVE  RowsStep /\ SessionsStep
<1>1. CASE StoreCall
  <2>1. PICK o \in Outcome :
          \/ \E l \in Logins, p \in Passwords, u \in Accounts :
                BeginRegistration(l, p, u, o)
          \/ \E u \in Accounts, v \in 1 .. MaxVersion, s \in Sessions :
                \/ CommitRegistration(u, v, s, o)
                \/ \E p \in Passwords :
                      CreatePasswordSession(
                          [user |-> u, version |-> v, password |-> p], s, o)
          \/ \E u \in Accounts : AbortRegistration(u, o) \/ RecordPasswordFailure(u, o)
          \/ \E s \in Sessions : CloseTerminalSession(s, o)
          \/ ExpireRegistrations(o)
          \/ ReadOnlyCall(o)
    BY <1>1 DEF StoreCall
  <2>2. CASE \E u \in Accounts, v \in 1 .. MaxVersion, s \in Sessions :
                \/ CommitRegistration(u, v, s, o)
                \/ \E p \in Passwords :
                      CreatePasswordSession(
                          [user |-> u, version |-> v, password |-> p], s, o)
    <3>1. 1 .. MaxVersion \subseteq Nat
      BY StoreAssumption
    <3> QED
      BY <2>2, <3>1, CommitStep, LoginStep
  <2>3. CASE ReadOnlyCall(o)
    BY <2>3, NothingStep DEF ReadOnlyCall
  <2> QED
    BY <2>1, <2>2, <2>3, BeginStep, AbortStep, FailureStep, CloseStep, ExpireStep
<1>2. CASE Connect \/ UNCHANGED storeVars
  BY <1>2, NothingStep DEF Connect, storeVars
<1> QED
  BY <1>1, <1>2, WorldStep DEF StoreNext
-----------------------------------------------------------------------------
(* The inductive invariant. *)

(* Two rows with a binding never share a name. *)
NamesUnique ==
    \A u, v \in Accounts :
        /\ account[u].binding /\ account[v].binding
        /\ account[u].login = account[v].login
        => u = v

StoreInv ==
    /\ StoreTypeOK
    /\ Coherent
    /\ NamesUnique
    /\ SessionsHaveMembers
    /\ PendingBounded

LEMMA CoherentRows == Coherent <=> \A u \in Accounts : RowCoherent(account[u])
  BY DEF Coherent, RowCoherent

(* What any step may do to the connection and the count of faults. *)
LEMMA AnswerType ==
    ASSUME link \in BOOLEAN, faults \in Nat, NEW o, Answered(o)
    PROVE  link' \in BOOLEAN /\ faults' \in Nat
<1>1. link' = link \/ link' \in BOOLEAN
  BY Zenon DEF Answered
<1>2. faults' = faults \/ faults' = faults + 1
  BY Zenon DEF Answered
<1> QED
  BY <1>1, <1>2

LEMMA LinkType ==
    ASSUME link \in BOOLEAN, faults \in Nat, [StoreNext]_storeVars
    PROVE  link' \in BOOLEAN /\ faults' \in Nat
<1> DEFINE Wired == link' = link \/ link' \in BOOLEAN
           Tallied == faults' = faults \/ faults' = faults + 1
<1>1. ASSUME NEW o \in Outcome, Answered(o)
      PROVE  Wired /\ Tallied
  <2>1. Wired
    BY <1>1, Zenon DEF Answered
  <2>2. Tallied
    BY <1>1, Zenon DEF Answered
  <2> QED
    BY <2>1, <2>2
<1>2. CASE StoreCall
  <2>1. ASSUME NEW o, NEW l, NEW p, NEW u, NEW v, NEW s, NEW snap
        PROVE  /\ BeginRegistration(l, p, u, o) => Answered(o)
               /\ CommitRegistration(u, v, s, o) => Answered(o)
               /\ CreatePasswordSession(snap, s, o) => Answered(o)
               /\ AbortRegistration(u, o) => Answered(o)
               /\ RecordPasswordFailure(u, o) => Answered(o)
               /\ CloseTerminalSession(s, o) => Answered(o)
               /\ ExpireRegistrations(o) => Answered(o)
               /\ ReadOnlyCall(o) => Answered(o)
    BY Zenon DEF BeginRegistration, CommitRegistration, CreatePasswordSession,
       AbortRegistration, RecordPasswordFailure, CloseTerminalSession,
       ExpireRegistrations, ReadOnlyCall
  <2>2. \E o \in Outcome : Answered(o)
    BY <1>2, <2>1, Zenon DEF StoreCall
  <2> QED
    BY <1>1, <2>2
<1>3. CASE World
  <2>1. LinkBreaks \/ (link' = link /\ faults' = faults)
    BY <1>3, Zenon DEF World, Elapse, ThrottleEnds, Administer
  <2>2. ASSUME LinkBreaks
        PROVE  Wired /\ Tallied
    <3>1. link' = FALSE /\ faults' = faults + 1
      BY <2>2 DEF LinkBreaks
    <3> QED
      BY <3>1
  <2> QED
    BY <2>1, <2>2
<1>4. CASE Connect \/ UNCHANGED storeVars
  <2>1. (link' = TRUE \/ link' = link) /\ faults' = faults
    BY <1>4, Zenon DEF Connect, storeVars
  <2> QED
    BY <2>1
<1>5. StoreCall \/ World \/ Connect \/ UNCHANGED storeVars
  BY Zenon DEF StoreNext
<1> QED
  BY <1>2, <1>3, <1>4, <1>5, Zenon

LEMMA InitEstablishes == StoreInit => StoreInv
<1> SUFFICES ASSUME StoreInit
             PROVE  StoreInv
  OBVIOUS
<1>1. PICK name \in [Existing -> Logins], word \in [Existing -> Passwords] :
        /\ \A u, v \in Existing : name[u] = name[v] => u = v
        /\ account = [u \in Accounts |->
                        IF u \in Existing
                        THEN NewRow("active", name[u], word[u], "none")
                        ELSE NewRow("absent", None, None, "none")]
  BY DEF StoreInit
<1>2. ASSUME NEW u \in Accounts
      PROVE  \/ /\ u \in Existing
                /\ account[u] = NewRow("active", name[u], word[u], "none")
                /\ name[u] \in Logins /\ word[u] \in Passwords
             \/ account[u] = NewRow("absent", None, None, "none")
  BY <1>1
<1>3. ASSUME NEW l \in Logins, NEW p \in Passwords
      PROVE  LET row == NewRow("active", l, p, "none")
             IN  /\ row \in Row /\ RowCoherent(row) /\ row.status = "active"
                 /\ row.login = l
  <2> USE DEF NewRow
  <2>1. NewRow("active", l, p, "none") \in Row
    BY StoreAssumption DEF Row, Standing, AttemptState
  <2>2. RowCoherent(NewRow("active", l, p, "none"))
    BY StoreAssumption DEF RowCoherent
  <2> QED
    BY <2>1, <2>2
<1>4. LET row == NewRow("absent", None, None, "none")
      IN  row \in Row /\ RowCoherent(row) /\ row.status = "absent" /\ ~row.binding
  <2> USE DEF NewRow
  <2>1. NewRow("absent", None, None, "none") \in Row
    BY StoreAssumption DEF Row, Standing, AttemptState
  <2>2. RowCoherent(NewRow("absent", None, None, "none"))
    BY StoreAssumption DEF RowCoherent
  <2> QED
    BY <2>1, <2>2
<1>5. session = [s \in Sessions |-> NoSession] /\ link = FALSE /\ faults = 0
  BY DEF StoreInit
<1>6. account \in [Accounts -> Row]
  <2>1. account = [u \in Accounts |-> account[u]]
    BY <1>1
  <2> QED
    BY <1>2, <1>3, <1>4, <2>1
<1>7. Coherent
  BY <1>2, <1>3, <1>4, CoherentRows
<1>8. NamesUnique
  BY <1>1, <1>2, <1>3, <1>4 DEF NamesUnique
<1>9. SessionsHaveMembers
  BY <1>5 DEF SessionsHaveMembers, NoSession
<1>10. PendingBounded
  <2>1. LiveAttempts = {}
    BY <1>2, <1>3, <1>4 DEF LiveAttempts, Pending
  <2>2. Cardinality(LiveAttempts) = 0
    BY <2>1, FS_EmptySet
  <2> QED
    BY <2>2, StoreAssumption DEF PendingBounded
<1>11. StoreTypeOK
  <2>1. session \in [Sessions -> SessionRow]
    BY <1>5 DEF SessionRow, NoSession
  <2> QED
    BY <1>5, <1>6, <2>1 DEF StoreTypeOK
<1> QED
  BY <1>7, <1>8, <1>9, <1>10, <1>11 DEF StoreInv

LEMMA StepTypes ==
    ASSUME StoreTypeOK, RowsStep, SessionsStep
    PROVE  account' \in [Accounts -> Row] /\ session' \in [Sessions -> SessionRow]
<1>1. account' \in [Accounts -> Row]
  <2>1. \A u \in Accounts : RowStep(account[u], account'[u])
    BY DEF RowsStep, RowStep, Altered
  <2>2. \A u \in Accounts : account[u] \in Row
    BY DEF StoreTypeOK
  <2>3. \A u \in Accounts : account'[u] \in Row
    BY <2>1, <2>2, RowStepType
  <2> QED
    BY <2>3 DEF RowsStep
<1>2. session' \in [Sessions -> SessionRow]
  <2>1. \A s \in Sessions : session[s] \in SessionRow
    BY DEF StoreTypeOK
  <2>2. ASSUME NEW old \in SessionRow, NEW new, SessionStep(old, new)
        PROVE  new \in SessionRow
    BY <2>2 DEF SessionStep, SessionRow
  <2> QED
    BY <2>1, <2>2 DEF SessionsStep
<1> QED
  BY <1>1, <1>2

LEMMA TypePreserved ==
    ASSUME StoreTypeOK, [StoreNext]_storeVars
    PROVE  StoreTypeOK'
<1>1. RowsStep /\ SessionsStep
  BY EveryStep
<1>2. account' \in [Accounts -> Row] /\ session' \in [Sessions -> SessionRow]
  BY <1>1, StepTypes
<1>4. link' \in BOOLEAN /\ faults' \in Nat
  BY LinkType DEF StoreTypeOK
<1> QED
  BY <1>2, <1>4 DEF StoreTypeOK

LEMMA CoherentPreserved ==
    ASSUME StoreTypeOK, Coherent, RowsStep
    PROVE  Coherent'
<1>1. \A u \in Accounts : RowStep(account[u], account'[u])
  BY DEF RowsStep, RowStep, Altered
<1>2. \A u \in Accounts : account[u] \in Row /\ RowCoherent(account[u])
  BY CoherentRows DEF StoreTypeOK
<1>3. \A u \in Accounts : RowCoherent(account'[u])
  BY <1>1, <1>2, RowStepCoherent
<1> QED
  BY <1>3 DEF Coherent, RowCoherent

LEMMA NamesPreserved ==
    ASSUME StoreTypeOK, Coherent, Coherent', RowsStep, NamesUnique
    PROVE  NamesUnique'
<1>1. \A u \in Accounts :
        /\ account[u] \in Row
        /\ account[u].binding <=> account[u].status \notin {"absent", "deleted"}
        /\ account'[u].binding <=> account'[u].status \notin {"absent", "deleted"}
  BY DEF StoreTypeOK, Coherent
<1>2. CASE \A u \in Accounts : Altered(account[u], account'[u])
  <2>1. ASSUME NEW u \in Accounts, account'[u].binding
        PROVE  account[u].binding
    BY <1>1, <1>2, <2>1, AlteredKeeps
  <2>2. \A u \in Accounts : account'[u].login = account[u].login
    BY <1>1, <1>2, AlteredKeeps
  <2> QED
    BY <2>1, <2>2 DEF NamesUnique
<1>3. ASSUME NEW b \in Accounts,
             \A u \in Accounts \ {b} : account'[u] = account[u],
             ~NameTaken(account'[b].login)
      PROVE  NamesUnique'
  BY <1>1, <1>3 DEF NamesUnique, NameTaken
<1> QED
  BY <1>2, <1>3 DEF RowsStep

LEMMA PendingPreserved ==
    ASSUME StoreTypeOK, Coherent, RowsStep, PendingBounded
    PROVE  PendingBounded'
<1>1. IsFiniteSet(LiveAttempts) /\ Cardinality(LiveAttempts) \in Nat
  BY StoreAssumption, FS_Subset, FS_CardinalityType DEF LiveAttempts
<1>2. \A u \in Accounts : account[u] \in Row /\ RowCoherent(account[u])
  BY CoherentRows DEF StoreTypeOK
<1>3. CASE \A u \in Accounts : Altered(account[u], account'[u])
  <2>1. LiveAttempts' \subseteq LiveAttempts
    <3>1. ASSUME NEW u \in Accounts, account'[u].status = "pending", ~account'[u].expired
          PROVE  u \in LiveAttempts
      BY <1>2, <1>3, <3>1, AlteredKeeps DEF LiveAttempts, Pending, RowCoherent
    <3> QED
      BY <3>1 DEF LiveAttempts, Pending
  <2>2. Cardinality(LiveAttempts') <= Cardinality(LiveAttempts)
    BY <1>1, <2>1, FS_Subset
  <2>3. Cardinality(LiveAttempts') \in Nat
    BY <1>1, <2>1, FS_Subset, FS_CardinalityType
  <2> QED
    BY <1>1, <2>2, <2>3, StoreAssumption DEF PendingBounded
<1>4. ASSUME NEW b \in Accounts,
             \A u \in Accounts \ {b} : account'[u] = account[u],
             Cardinality(LiveAttempts) < MaxPending
      PROVE  PendingBounded'
  <2>1. LiveAttempts' \subseteq LiveAttempts \cup {b}
    BY <1>4 DEF LiveAttempts, Pending
  <2>2. /\ IsFiniteSet(LiveAttempts \cup {b})
        /\ Cardinality(LiveAttempts \cup {b}) <= Cardinality(LiveAttempts) + 1
        /\ Cardinality(LiveAttempts \cup {b}) \in Nat
    <3>1. /\ IsFiniteSet(LiveAttempts \cup {b})
          /\ \/ Cardinality(LiveAttempts \cup {b}) = Cardinality(LiveAttempts)
             \/ Cardinality(LiveAttempts \cup {b}) = Cardinality(LiveAttempts) + 1
      BY <1>1, FS_AddElement
    <3> QED
      BY <1>1, <3>1
  <2>3. /\ Cardinality(LiveAttempts') <= Cardinality(LiveAttempts \cup {b})
        /\ Cardinality(LiveAttempts') \in Nat
    BY <2>1, <2>2, FS_Subset, FS_CardinalityType
  <2> QED
    BY <1>1, <1>4, <2>2, <2>3, StoreAssumption DEF PendingBounded
<1> QED
  BY <1>3, <1>4 DEF RowsStep

LEMMA SessionsPreserved ==
    ASSUME StoreTypeOK, RowsStep, SessionsStep, SessionsHaveMembers
    PROVE  SessionsHaveMembers'
<1>1. \A u \in Accounts :
        account[u].status \in {"active", "disabled"}
            => account'[u].status \in {"active", "disabled"}
  <2>1. \A u \in Accounts : account[u] \in Row /\ RowStep(account[u], account'[u])
    BY DEF RowsStep, RowStep, Altered, StoreTypeOK
  <2> QED
    BY <2>1, RowStepStatus
<1>2. ASSUME NEW s \in Sessions, session'[s].state # "absent"
      PROVE  /\ session'[s].user \in Accounts
             /\ account'[session'[s].user].status \in {"active", "disabled"}
  <2>1. session[s] \in SessionRow
    BY DEF StoreTypeOK
  <2>2. SessionStep(session[s], session'[s])
    BY DEF SessionsStep
  <2>3. CASE session'[s] = session[s]
    BY <1>1, <1>2, <2>3 DEF SessionsHaveMembers
  <2>4. CASE session[s].state = "open" /\ session'[s] = [session[s] EXCEPT !.state = "closed"]
    <3>1. session'[s].user = session[s].user
      BY <2>1, <2>4 DEF SessionRow
    <3> QED
      BY <1>1, <2>4, <3>1 DEF SessionsHaveMembers
  <2>5. ASSUME NEW u \in Accounts, account'[u].status = "active",
               session'[s] = [state |-> "open", user |-> u]
        PROVE  /\ session'[s].user \in Accounts
               /\ account'[session'[s].user].status \in {"active", "disabled"}
    <3>1. session'[s].user = u
      BY <2>5
    <3> QED
      BY <2>5, <3>1
  <2> QED
    BY <2>2, <2>3, <2>4, <2>5 DEF SessionStep
<1> QED
  BY <1>2 DEF SessionsHaveMembers

LEMMA StoreInvStep ==
    ASSUME StoreInv, RowsStep, SessionsStep, StoreTypeOK'
    PROVE  StoreInv'
<1>1. Coherent'
  BY CoherentPreserved DEF StoreInv
<1>2. NamesUnique'
  BY <1>1, NamesPreserved DEF StoreInv
<1>3. SessionsHaveMembers'
  BY SessionsPreserved DEF StoreInv
<1>4. PendingBounded'
  BY PendingPreserved DEF StoreInv
<1> QED
  BY <1>1, <1>2, <1>3, <1>4 DEF StoreInv

(* Every call and every outside change keeps the tables typed and in      *)
(* agreement, the names unique, the sessions owned and the limit kept.     *)
THEOREM StoreInvariant == StoreSpec => []StoreInv
<1>1. StoreInv /\ [StoreNext]_storeVars => StoreInv'
  <2> SUFFICES ASSUME StoreInv, [StoreNext]_storeVars
               PROVE  StoreInv'
    OBVIOUS
  <2>1. RowsStep /\ SessionsStep
    BY EveryStep DEF StoreInv
  <2>2. StoreTypeOK'
    BY TypePreserved DEF StoreInv
  <2> QED
    BY <2>1, <2>2, StoreInvStep
<1> QED
  BY <1>1, InitEstablishes, PTL DEF StoreSpec
-----------------------------------------------------------------------------
(* The theorems. *)

(* The rows of authd_database.c keep their types: failed_count saturates   *)
(* at its limit and an identity has one of five standings.                 *)
THEOREM StoreTypeCorrect == StoreSpec => []StoreTypeOK
  BY StoreInvariant, PTL DEF StoreInv

(* bbs_users, credentials, bindings, roles and attempts agree after every  *)
(* begin, commit, abort, expiry and administrative change.                 *)
THEOREM TablesAgree == StoreSpec => []Coherent
  BY StoreInvariant, PTL DEF StoreInv

(* lookup_login never finds two rows, though it does not test deleted_at.  *)
THEOREM LookupFindsOne == StoreSpec => []LookupUnambiguous
<1>1. StoreInv => LookupUnambiguous
  BY DEF StoreInv, NamesUnique, LookupUnambiguous, LookupRows
<1> QED
  BY <1>1, StoreInvariant, PTL

(* No abort or expiry deletes the account of a session, whatever replies   *)
(* were lost.                                                              *)
THEOREM MembersStay == StoreSpec => []SessionsHaveMembers
  BY StoreInvariant, PTL DEF StoreInv

(* registration_max_pending is never exceeded.                             *)
THEOREM PendingIsBounded == StoreSpec => []PendingBounded
  BY StoreInvariant, PTL DEF StoreInv

(* The recheck of expires_at in commit: an expired attempt stays pending   *)
(* or is deleted.                                                          *)
THEOREM ExpiredStaysOut == StoreSpec => NoLateActivation
<1>1. StoreInv /\ [StoreNext]_storeVars
        => [\A u \in Accounts :
              account[u].status = "pending" /\ account[u].expired
                  => account'[u].status \in {"pending", "deleted"}]_storeVars
  <2> SUFFICES ASSUME StoreInv, [StoreNext]_storeVars,
                      NEW u \in Accounts, account[u].status = "pending", account[u].expired
               PROVE  account'[u].status \in {"pending", "deleted"}
    OBVIOUS
  <2>1. RowsStep /\ account[u] \in Row
    BY EveryStep DEF StoreInv, StoreTypeOK
  <2>2. RowStep(account[u], account'[u])
    BY <2>1 DEF RowsStep, RowStep, Altered
  <2> QED
    BY <2>1, <2>2, RowStepStatus
<1> QED
  BY <1>1, StoreInvariant, PTL DEF StoreSpec, NoLateActivation

-----------------------------------------------------------------------------
(***************************************************************************)
(* The account database implements AccountLifecycle.  An identity is none, *)
(* applicant, member or gone by the status of its row; what a call does to *)
(* failures, passwords, roles and versions is a stutter.  The one fact the *)
(* invariants above lack is that a session nobody opened has no owner.     *)
(***************************************************************************)

(* The standing of one row. *)
Stand(row) ==
    CASE row.status = "absent" -> "none"
      [] row.status = "pending" -> "applicant"
      [] row.status = "deleted" -> "gone"
      [] OTHER -> "member"

(* What the mapping makes of the session rows. *)
Visits == [s \in Sessions |-> [owner |-> session[s].user, phase |-> session[s].state]]

LEMMA StandOf ==
    ASSUME NEW row
    PROVE  /\ row.status = "absent" => Stand(row) = "none"
           /\ row.status = "pending" => Stand(row) = "applicant"
           /\ row.status = "deleted" => Stand(row) = "gone"
           /\ row.status \in {"active", "disabled"} => Stand(row) = "member"
  BY DEF Stand

LEMMA StandingIs ==
    /\ LifecycleStanding = [u \in Accounts |-> Stand(account[u])]
    /\ LifecycleStanding' = [u \in Accounts |-> Stand(account'[u])]
  BY DEF LifecycleStanding, Stand

(* A session that was never opened belongs to nobody. *)
AbsentUnowned ==
    \A s \in Sessions : session[s].state = "absent" => session[s].user = None

RefineInv == StoreInv /\ AbsentUnowned

LEMMA RefineInvariant == StoreSpec => []RefineInv
<1>1. StoreInit => AbsentUnowned
  BY DEF StoreInit, AbsentUnowned, NoSession
<1>2. StoreInv /\ AbsentUnowned /\ [StoreNext]_storeVars => AbsentUnowned'
  <2> SUFFICES ASSUME StoreInv, AbsentUnowned, [StoreNext]_storeVars,
                      NEW s \in Sessions, session'[s].state = "absent"
               PROVE  session'[s].user = None
    BY DEF AbsentUnowned
  <2>1. StoreTypeOK
    BY DEF StoreInv
  <2>2. SessionStep(session[s], session'[s]) /\ session[s] \in SessionRow
    BY <2>1, EveryStep DEF StoreTypeOK, SessionsStep
  <2>3. session'[s] = session[s]
    <3>1. CASE session[s].state = "open" /\ session'[s] = [session[s] EXCEPT !.state = "closed"]
      <4>1. session'[s].state = "closed"
        BY <2>2, <3>1 DEF SessionRow
      <4> QED
        BY <4>1
    <3>2. ASSUME NEW u, session'[s] = [state |-> "open", user |-> u]
          PROVE  FALSE
      BY <3>2
    <3> QED
      BY <2>2, <3>1, <3>2 DEF SessionStep
  <2> QED
    BY <2>3 DEF AbsentUnowned
<1> QED
  BY <1>1, <1>2, StoreInvariant, PTL DEF StoreSpec, RefineInv
-----------------------------------------------------------------------------
(* Steps of the database as steps of the lifecycle. *)

Refined == [Lifecycle!Next]_<<LifecycleStanding, Visits>>

LEMMA Quiet ==
    ASSUME \A u \in Accounts : Stand(account'[u]) = Stand(account[u]),
           session' = session
    PROVE  Refined
<1>1. LifecycleStanding' = LifecycleStanding
  BY StandingIs
<1>2. Visits' = Visits
  BY DEF Visits
<1> QED
  BY <1>1, <1>2 DEF Refined

LEMMA StandAmended ==
    ASSUME StoreTypeOK, NEW u \in Accounts, NEW row, Amended(u, row)
    PROVE  /\ LifecycleStanding[u] = Stand(account[u])
           /\ LifecycleStanding' = [LifecycleStanding EXCEPT ![u] = Stand(row)]
<1>1. \A v \in Accounts : account'[v] = IF v = u THEN row ELSE account[v]
  BY DEF Amended, StoreTypeOK
<1> QED
  BY <1>1, StandingIs

LEMMA VisitOpened ==
    ASSUME StoreTypeOK, AbsentUnowned, NEW u \in Accounts, NEW s \in Sessions,
           session[s].state = "absent", session' = Opened(u, s)
    PROVE  /\ Visits[s] = [owner |-> None, phase |-> "absent"]
           /\ Visits' = [Visits EXCEPT ![s] = [owner |-> u, phase |-> "open"]]
<1>1. \A t \in Sessions :
        session'[t] = IF t = s THEN [state |-> "open", user |-> u] ELSE session[t]
  BY DEF Opened, StoreTypeOK
<1>2. session[s].user = None
  BY DEF AbsentUnowned
<1>3. Visits[s] = [owner |-> None, phase |-> "absent"]
  BY <1>2 DEF Visits
<1>4. /\ Visits' = [t \in Sessions |-> [owner |-> session'[t].user, phase |-> session'[t].state]]
      /\ Visits = [t \in Sessions |-> [owner |-> session[t].user, phase |-> session[t].state]]
  BY DEF Visits
<1>5. session'[s].user = u /\ session'[s].state = "open"
  BY <1>1
<1>6. \A t \in Sessions \ {s} : session'[t] = session[t]
  BY <1>1
<1>7. Visits' = [Visits EXCEPT ![s] = [owner |-> u, phase |-> "open"]]
  BY <1>4, <1>5, <1>6
<1> QED
  BY <1>3, <1>7

LEMMA BeginRefines ==
    ASSUME RefineInv, NEW l \in Logins, NEW p \in Passwords, NEW u \in Accounts,
           NEW o \in Outcome, BeginRegistration(l, p, u, o)
    PROVE  Refined
<1>1. CASE Executed(o) /\ BeginVerdict(l) = "ok"
  <2> DEFINE row == NewRow("pending", l, p, "pending_legacy")
  <2>1. Amended(u, row) /\ account[u].status = "absent" /\ session' = session
    BY <1>1 DEF BeginRegistration, Amended
  <2>2. Stand(row) = "applicant" /\ Stand(account[u]) = "none"
    BY <2>1, StandOf DEF NewRow
  <2>3. /\ LifecycleStanding[u] = "none"
        /\ LifecycleStanding' = [LifecycleStanding EXCEPT ![u] = "applicant"]
    BY <2>1, <2>2, StandAmended DEF RefineInv, StoreInv
  <2>4. Lifecycle!Apply(u)
    BY <2>1, <2>3 DEF Lifecycle!Apply
  <2> QED
    BY <2>4 DEF Refined, Lifecycle!Next
<1>2. CASE ~(Executed(o) /\ BeginVerdict(l) = "ok")
  BY <1>2, Quiet DEF BeginRegistration
<1> QED
  BY <1>1, <1>2

LEMMA CommitRefines ==
    ASSUME RefineInv, NEW u \in Accounts, NEW v \in Nat, NEW s \in Sessions,
           NEW o \in Outcome, CommitRegistration(u, v, s, o)
    PROVE  Refined
<1>0. StoreTypeOK /\ AbsentUnowned
  BY DEF RefineInv, StoreInv
<1>1. CASE Executed(o) /\ Committable(u, v)
  <2> DEFINE row == [account[u] EXCEPT !.status = "active", !.role = TRUE,
                                       !.version = @ + 1, !.attempt = "completed"]
  <2>1. account' = [account EXCEPT ![u].status = "active", ![u].role = TRUE,
                                   ![u].version = @ + 1, ![u].attempt = "completed"]
    BY <1>1 DEF CommitRegistration
  <2>2. Amended(u, row)
    BY <1>0, <2>1 DEF Amended, StoreTypeOK, Row
  <2>3. row.status = "active" /\ account[u].status = "pending"
    BY <1>0, <1>1 DEF Committable, Pending, StoreTypeOK, Row
  <2>4. Stand(row) = "member" /\ Stand(account[u]) = "applicant"
    BY <2>3, StandOf
  <2> HIDE DEF row
  <2>5. /\ LifecycleStanding[u] = "applicant"
        /\ LifecycleStanding' = [LifecycleStanding EXCEPT ![u] = "member"]
    BY <1>0, <2>2, <2>4, StandAmended
  <2>6. session' = Opened(u, s) /\ session[s].state = "absent"
    BY <1>1 DEF CommitRegistration
  <2>7. /\ Visits[s] = [owner |-> None, phase |-> "absent"]
        /\ Visits' = [Visits EXCEPT ![s] = [owner |-> u, phase |-> "open"]]
    BY <1>0, <2>6, VisitOpened
  <2>8. Lifecycle!Admit(u, s)
    BY <2>5, <2>7 DEF Lifecycle!Admit, Lifecycle!Open, Lifecycle!Unopened,
       Lifecycle!Visit, Visits
  <2> QED
    BY <2>8 DEF Refined, Lifecycle!Next
<1>2. CASE ~(Executed(o) /\ Committable(u, v))
  BY <1>2, Quiet DEF CommitRegistration
<1> QED
  BY <1>1, <1>2

LEMMA WithdrawRefines ==
    ASSUME RefineInv, NEW U \in SUBSET Accounts, NEW verdict,
           \A u \in U : Pending(u), account' = Withdrawn(U, verdict), session' = session
    PROVE  Refined
<1>0. StoreTypeOK
  BY DEF RefineInv, StoreInv
<1>1. ASSUME NEW u \in Accounts
      PROVE  Stand(account'[u]) = IF u \in U THEN "gone" ELSE Stand(account[u])
  <2>1. account'[u] = IF u \in U THEN Deleted(account[u], verdict) ELSE account[u]
    BY DEF Withdrawn
  <2>2. Deleted(account[u], verdict).status = "deleted"
    BY <1>0 DEF Deleted, StoreTypeOK, Row
  <2> QED
    BY <2>1, <2>2, StandOf
<1>2. \A u \in U : LifecycleStanding[u] = "applicant"
  BY StandingIs, StandOf DEF Pending
<1>3. LifecycleStanding' = [u \in Accounts |-> IF u \in U THEN "gone" ELSE LifecycleStanding[u]]
  BY <1>1, StandingIs
<1>4. Lifecycle!Withdraw(U)
  BY <1>2, <1>3 DEF Lifecycle!Withdraw
<1> QED
  BY <1>4 DEF Refined, Lifecycle!Next

LEMMA AbortRefines ==
    ASSUME RefineInv, NEW u \in Accounts, NEW o \in Outcome, AbortRegistration(u, o)
    PROVE  Refined
<1>1. CASE Executed(o) /\ Pending(u)
  <2>1. account' = Withdrawn({u}, "aborted") /\ session' = session
    BY <1>1 DEF AbortRegistration
  <2> QED
    BY <1>1, <2>1, WithdrawRefines
<1>2. CASE ~(Executed(o) /\ Pending(u))
  BY <1>2, Quiet DEF AbortRegistration
<1> QED
  BY <1>1, <1>2

LEMMA ExpireRefines ==
    ASSUME RefineInv, NEW o \in Outcome, ExpireRegistrations(o)
    PROVE  Refined
<1> DEFINE U == {u \in Accounts : Pending(u) /\ account[u].expired}
<1>1. CASE Executed(o)
  <2>1. account' = Withdrawn(U, "failed") /\ session' = session
    BY <1>1 DEF ExpireRegistrations
  <2>2. U \in SUBSET Accounts /\ \A u \in U : Pending(u)
    OBVIOUS
  <2> HIDE DEF U
  <2> QED
    BY <2>1, <2>2, WithdrawRefines
<1>2. CASE ~Executed(o)
  BY <1>2, Quiet DEF ExpireRegistrations
<1> QED
  BY <1>1, <1>2

(* Counting failures changes nobody's standing. *)
LEMMA CountQuiet ==
    ASSUME StoreTypeOK, NEW u \in Accounts, NEW n, NEW b,
           account' = [account EXCEPT ![u].failures = n, ![u].throttled = b]
    PROVE  \A v \in Accounts : Stand(account'[v]) = Stand(account[v])
<1>1. \A v \in Accounts : account'[v].status = account[v].status
  BY DEF StoreTypeOK, Row
<1> QED
  BY <1>1 DEF Stand

LEMMA LoginRefines ==
    ASSUME RefineInv, NEW u \in Accounts, NEW v \in Nat,
           NEW p \in Passwords \cup {None}, NEW s \in Sessions, NEW o \in Outcome,
           CreatePasswordSession([user |-> u, version |-> v, password |-> p], s, o)
    PROVE  Refined
<1> DEFINE snap == [user |-> u, version |-> v, password |-> p]
<1>0. StoreTypeOK /\ AbsentUnowned
  BY DEF RefineInv, StoreInv
<1>1. \A w \in Accounts : Stand(account'[w]) = Stand(account[w])
  <2>1. CASE Executed(o) /\ Current(snap)
    <3>1. account' = [account EXCEPT ![u].failures = 0]
      BY <2>1 DEF CreatePasswordSession
    <3>2. account' = [account EXCEPT ![u].failures = 0,
                                     ![u].throttled = account[u].throttled]
      BY <1>0, <3>1 DEF StoreTypeOK, Row
    <3> QED
      BY <1>0, <3>2, CountQuiet
  <2>2. CASE ~(Executed(o) /\ Current(snap))
    <3>1. account' = account
      BY <2>2 DEF CreatePasswordSession
    <3> QED
      BY <3>1
  <2> QED
    BY <2>1, <2>2
<1>2. CASE Executed(o) /\ SessionVerdict(snap) = "ok"
  <2>1. session' = Opened(u, s) /\ session[s].state = "absent"
    BY <1>2 DEF CreatePasswordSession
  <2>2. account[u].status = "active"
    BY <1>2 DEF SessionVerdict, Current
  <2>3. LifecycleStanding[u] = "member" /\ LifecycleStanding' = LifecycleStanding
    BY <1>1, <2>2, StandingIs, StandOf
  <2>4. /\ Visits[s] = [owner |-> None, phase |-> "absent"]
        /\ Visits' = [Visits EXCEPT ![s] = [owner |-> u, phase |-> "open"]]
    BY <1>0, <2>1, VisitOpened
  <2>5. Lifecycle!Enter(u, s)
    BY <2>3, <2>4 DEF Lifecycle!Enter, Lifecycle!Open, Lifecycle!Unopened,
       Lifecycle!Visit, Visits
  <2> QED
    BY <2>5 DEF Refined, Lifecycle!Next
<1>3. CASE ~(Executed(o) /\ SessionVerdict(snap) = "ok")
  <2>1. session' = session
    BY <1>3 DEF CreatePasswordSession
  <2> QED
    BY <1>1, <2>1, Quiet
<1> QED
  BY <1>2, <1>3

LEMMA FailureRefines ==
    ASSUME RefineInv, NEW u \in Accounts, NEW o \in Outcome, RecordPasswordFailure(u, o)
    PROVE  Refined
<1>0. StoreTypeOK
  BY DEF RefineInv, StoreInv
<1>1. PICK n \in {1, account[u].failures + 1} :
          account' = IF Executed(o) /\ account[u].password # None
                     THEN [account EXCEPT
                             ![u].failures = IF n > CountLimit THEN CountLimit ELSE n,
                             ![u].throttled = @ \/ n >= Threshold]
                     ELSE account
  BY DEF RecordPasswordFailure
<1>2. session' = session
  BY DEF RecordPasswordFailure
<1>3. CASE Executed(o) /\ account[u].password # None
  <2> DEFINE f == IF n > CountLimit THEN CountLimit ELSE n
             t == account[u].throttled \/ n >= Threshold
  <2>1. account' = [account EXCEPT ![u].failures = f, ![u].throttled = t]
    BY <1>0, <1>1, <1>3 DEF StoreTypeOK, Row
  <2> HIDE DEF f, t
  <2>2. \A v \in Accounts : Stand(account'[v]) = Stand(account[v])
    BY <1>0, <2>1, CountQuiet
  <2> QED
    BY <1>2, <2>2, Quiet
<1>4. CASE ~(Executed(o) /\ account[u].password # None)
  <2>1. account' = account
    BY <1>1, <1>4
  <2> QED
    BY <1>2, <2>1, Quiet
<1> QED
  BY <1>3, <1>4

LEMMA CloseRefines ==
    ASSUME RefineInv, NEW s \in Sessions, NEW o \in Outcome, CloseTerminalSession(s, o)
    PROVE  Refined
<1>0. StoreTypeOK
  BY DEF RefineInv, StoreInv
<1>1. account' = account
  BY DEF CloseTerminalSession
<1>2. CASE Executed(o) /\ session[s].state = "open"
  <2>1. session' = [session EXCEPT ![s].state = "closed"]
    BY <1>2 DEF CloseTerminalSession
  <2>2. /\ session'[s].state = "closed" /\ session'[s].user = session[s].user
        /\ \A t \in Sessions \ {s} : session'[t] = session[t]
    BY <1>0, <2>1 DEF StoreTypeOK, SessionRow
  <2>3. /\ Visits' = [t \in Sessions |-> [owner |-> session'[t].user, phase |-> session'[t].state]]
        /\ Visits = [t \in Sessions |-> [owner |-> session[t].user, phase |-> session[t].state]]
    BY DEF Visits
  <2>4. Visits' = [Visits EXCEPT ![s].phase = "closed"] /\ Visits[s].phase = "open"
    BY <1>2, <2>2, <2>3
  <2>5. LifecycleStanding' = LifecycleStanding
    BY <1>1, StandingIs
  <2>6. Lifecycle!Leave(s)
    BY <2>4, <2>5 DEF Lifecycle!Leave, Visits
  <2> QED
    BY <2>6 DEF Refined, Lifecycle!Next
<1>3. CASE ~(Executed(o) /\ session[s].state = "open")
  <2>1. session' = session
    BY <1>3 DEF CloseTerminalSession
  <2> QED
    BY <1>1, <2>1, Quiet
<1> QED
  BY <1>2, <1>3

LEMMA WorldRefines ==
    ASSUME RefineInv, World
    PROVE  Refined
<1>0. StoreTypeOK
  BY DEF RefineInv, StoreInv
<1>1. ASSUME NEW u \in Accounts, Elapse(u)
      PROVE  Refined
  <2>1. \A v \in Accounts : account'[v].status = account[v].status
    BY <1>0, <1>1 DEF Elapse, StoreTypeOK, Row
  <2> QED
    BY <1>1, <2>1, Quiet DEF Elapse, Stand
<1>2. ASSUME NEW u \in Accounts, ThrottleEnds(u)
      PROVE  Refined
  <2>1. \A v \in Accounts : account'[v].status = account[v].status
    BY <1>0, <1>2 DEF ThrottleEnds, StoreTypeOK, Row
  <2> QED
    BY <1>2, <2>1, Quiet DEF ThrottleEnds, Stand
<1>3. ASSUME NEW u \in Accounts, Administer(u)
      PROVE  Refined
  <2>1. PICK s \in {"active", "disabled"}, p \in Passwords, r \in BOOLEAN,
             v \in {account[u].version, account[u].version + 1} :
          account' = [account EXCEPT ![u].status = s, ![u].password = p,
                                     ![u].role = r, ![u].version = v]
    BY <1>3, ZenonT(60) DEF Administer
  <2>2. \A w \in Accounts \ {u} : account'[w] = account[w]
    BY <1>0, <2>1 DEF StoreTypeOK
  <2>3. account'[u].status \in {"active", "disabled"}
    BY <1>0, <2>1 DEF StoreTypeOK, Row
  <2>4. account[u].status \in {"active", "disabled"} /\ session' = session
    BY <1>3 DEF Administer
  <2>5. Stand(account'[u]) = Stand(account[u])
    BY <2>3, <2>4, StandOf
  <2> QED
    BY <2>2, <2>4, <2>5, Quiet
<1>4. ASSUME LinkBreaks
      PROVE  Refined
  BY <1>4, Quiet DEF LinkBreaks
<1> QED
  BY <1>1, <1>2, <1>3, <1>4 DEF World

LEMMA EveryStepRefines ==
    ASSUME RefineInv, [StoreNext]_storeVars
    PROVE  Refined
<1>1. CASE StoreCall
  <2>1. PICK o \in Outcome :
          \/ \E l \in Logins, p \in Passwords, u \in Accounts :
                BeginRegistration(l, p, u, o)
          \/ \E u \in Accounts, v \in 1 .. MaxVersion, s \in Sessions :
                \/ CommitRegistration(u, v, s, o)
                \/ \E p \in Passwords :
                      CreatePasswordSession(
                          [user |-> u, version |-> v, password |-> p], s, o)
          \/ \E u \in Accounts : AbortRegistration(u, o) \/ RecordPasswordFailure(u, o)
          \/ \E s \in Sessions : CloseTerminalSession(s, o)
          \/ ExpireRegistrations(o)
          \/ ReadOnlyCall(o)
    BY <1>1 DEF StoreCall
  <2>2. 1 .. MaxVersion \subseteq Nat
    BY StoreAssumption
  <2>3. CASE ReadOnlyCall(o)
    BY <2>3, Quiet DEF ReadOnlyCall
  <2> QED
    BY <2>1, <2>2, <2>3, BeginRefines, CommitRefines, LoginRefines, AbortRefines,
       FailureRefines, CloseRefines, ExpireRefines
<1>2. CASE Connect \/ UNCHANGED storeVars
  BY <1>2, Quiet DEF Connect, storeVars
<1> QED
  BY <1>1, <1>2, WorldRefines DEF StoreNext

LEMMA InitRefines == StoreInit => Lifecycle!Init
<1> SUFFICES ASSUME StoreInit
             PROVE  Lifecycle!Init
  OBVIOUS
<1>1. \A u \in Accounts : account[u].status \in {"absent", "active"}
  BY DEF StoreInit, NewRow
<1>2. \A u \in Accounts : Stand(account[u]) \in {"none", "member"}
  BY <1>1, StandOf
<1>3. LifecycleStanding \in [Accounts -> {"none", "member"}]
  BY <1>2, StandingIs
<1>4. Visits = [s \in Sessions |-> [owner |-> None, phase |-> "absent"]]
  BY DEF Visits, StoreInit, NoSession
<1> QED
  BY <1>3, <1>4 DEF Lifecycle!Init, Lifecycle!Unopened, Visits

(* The transactions of authd_database.c, with every lost reply, late abort *)
(* and expiry batch, implement the account lifecycle.                      *)
THEOREM StoreImplementsLifecycle == StoreSpec => LifecycleSpec
<1>1. RefineInv /\ [StoreNext]_storeVars => Refined
  BY EveryStepRefines
<1> QED
  BY <1>1, InitRefines, RefineInvariant, PTL
     DEF StoreSpec, LifecycleSpec, Lifecycle!Spec, Refined, Visits

-----------------------------------------------------------------------------
(* THE SERVER *)

(* The inductive invariant. *)

(* What was looked up for a login is a member with the name typed. *)
Looked(snap, t, acc) ==
    /\ snap.user \in Accounts
    /\ acc[snap.user].status \in {"active", "disabled"}
    /\ acc[snap.user].login = t.login

(* What was begun by a registration has the name and password typed. *)
Applied(u, t, acc) ==
    /\ u \in Accounts /\ acc[u].status # "absent"
    /\ acc[u].status = "pending" =>
          acc[u].login = t.login /\ acc[u].password = t.password

(* One connection k, whose peer typed t last. *)
Sound(k, t, acc) ==
    /\ k \in Client
    /\ k.open = FALSE => k = Free(k.generation)
    /\ k.login # NoLogin =>
          /\ k.registration = NoRegistration /\ k.session = None
          /\ k.state \in {"AUTHENTICATING", "CLOSING"}
          /\ k.login.job # 0
          /\ k.login.deferred = FALSE => Looked(k.login.snap, t, acc)
    /\ k.registration # NoRegistration =>
          /\ k.session = None /\ k.state \in {"REGISTERING", "CLOSING"}
          /\ k.registration.active = TRUE /\ k.registration.login = t.login
          /\ t.login # None
    /\ k.registration.user # None =>
          k.registration.job = 0 /\ Applied(k.registration.user, t, acc)
    /\ k.session # None => k.state \in {"SESSION_BOUND", "CLOSING"}
    /\ k.state = "SESSION_BOUND" => k.session # None

(* Job j carries the password typed, and a login's the hash looked up. *)
Answers(j, k, t) ==
    /\ j.kind = "verify" /\ k.login.job = j.id =>
          /\ j.password = t.password
          /\ k.login.deferred = FALSE => j.against = k.login.snap.password
    /\ j.kind = "generate" /\ k.registration.job = j.id => j.password = t.password

Numbered(J, next) == \A j \in J : j.id > 0 /\ j.id < next

(* f[c] is what slot c holds, A what somebody must hold, B what exists. *)
Held(f, A, B, lost) ==
    /\ \A x \in A \ lost : \E c \in Slots : f[c] = x
    /\ \A c, d \in Slots : f[c] = f[d] /\ f[c] # None => c = d
    /\ \A c \in Slots : f[c] # None => f[c] \in B

SessionOf(cl) == [c \in Slots |-> cl[c].session]
UserOf(cl) == [c \in Slots |-> cl[c].registration.user]

OpenIn(ses) == {s \in Sessions : ses[s].state = "open"}
MadeIn(ses) == {s \in Sessions : ses[s].state # "absent"}
PendingIn(acc) == {u \in Accounts : acc[u].status = "pending" /\ acc[u].attempt = "pending_legacy"}
KnownIn(acc) == {u \in Accounts : acc[u].status # "absent"}

(* Nobody fails to log in to an identity that is still pending. *)
Calm(acc) == \A u \in Accounts : acc[u].status = "pending" => acc[u].throttled = FALSE

Typed == [login : Logins \cup {None}, password : Passwords \cup {None}]

Numbers ==
    /\ daemon \in {"down", "starting", "running", "stopping"}
    /\ doomed \in Slots \cup {0} /\ stops \in Nat
    /\ orphans \subseteq Sessions \cup Accounts

Clients(cl, ty, acc) ==
    /\ cl \in [Slots -> Client] /\ ty \in [Slots -> Typed]
    /\ \A c \in Slots : Sound(cl[c], ty[c], acc)

Jobs(J, next, cl, ty) ==
    /\ J \subseteq Job /\ next \in Nat \ {0} /\ Numbered(J, next)
    /\ \A j \in J : Answers(j, cl[j.slot], ty[j.slot])

Holdings(cl, acc, ses, lost) ==
    /\ Held(SessionOf(cl), OpenIn(ses), MadeIn(ses), lost)
    /\ Held(UserOf(cl), PendingIn(acc), KnownIn(acc), lost)

ServerInv ==
    /\ StoreInv /\ Calm(account) /\ Numbers
    /\ Clients(client, typed, account)
    /\ Jobs(jobs, next_job, client, typed)
    /\ Holdings(client, account, session, orphans)

-----------------------------------------------------------------------------
(* Slots and what they hold. *)

LEMMA Constants ==
    /\ None \notin Logins /\ None \notin Passwords /\ None \notin Accounts
    /\ None \notin Sessions /\ 0 \notin Slots /\ Slots \subseteq Nat
BY StoreAssumption, ServerAssumption DEF StoreAssumption, ServerAssumption

(* What slot c holds changes from old to new. *)
Passed(old, new, A, A2, B, B2, lost2) ==
    /\ \A y \in A2 \ lost2 : y = new \/ (y \in A /\ y # old)
    /\ new # None => new = old \/ (new \notin B /\ new \in B2)
    /\ B \subseteq B2

LEMMA HeldStep ==
    ASSUME NEW f, NEW f2, NEW A, NEW A2, NEW B, NEW B2, NEW lost, NEW lost2,
           NEW c \in Slots, NEW new, f2[c] = new, \A d \in Slots : d # c => f2[d] = f[d],
           Held(f, A, B, lost), lost \subseteq lost2, Passed(f[c], new, A, A2, B, B2, lost2)
    PROVE  Held(f2, A2, B2, lost2)
<1>1. ASSUME NEW x \in A2 \ lost2 PROVE \E d \in Slots : f2[d] = x
  <2>1. CASE x = new
    BY <2>1
  <2>2. CASE x \in A /\ x # f[c]
    <3>1. PICK d \in Slots : f[d] = x
      BY <1>1, <2>2 DEF Held
    <3>2. QED
      BY <2>2, <3>1
  <2>3. QED
    BY <1>1, <2>1, <2>2 DEF Passed
<1>2. ASSUME NEW d \in Slots, NEW e \in Slots, f2[d] = f2[e], f2[d] # None PROVE d = e
  <2>1. ASSUME NEW x \in Slots, x # c, f[x] = new, new # None PROVE FALSE
    BY <2>1 DEF Held, Passed
  <2>2. QED
    BY <1>2, <2>1 DEF Held
<1>3. \A d \in Slots : f2[d] # None => f2[d] \in B2
  BY DEF Held, Passed
<1>4. QED
  BY <1>1, <1>2, <1>3 DEF Held

LEMMA PassedSame ==
    ASSUME NEW x, NEW A, NEW A2, NEW B, NEW B2, NEW lost, A2 \subseteq A, B \subseteq B2
    PROVE  Passed(x, x, A, A2, B, B2, lost)
BY DEF Passed

(* The database does not forget. *)
Mindful ==
    /\ RowsStep /\ SessionsStep
    /\ StoreInv' /\ Calm(account')
    /\ MadeIn(session) \subseteq MadeIn(session')
    /\ KnownIn(account) \subseteq KnownIn(account')

LEMMA RowSteps ==
    ASSUME StoreTypeOK, RowsStep
    PROVE  \A u \in Accounts : account[u] \in Row /\ RowStep(account[u], account'[u])
BY DEF StoreTypeOK, RowsStep, RowStep, Altered

LEMMA RowStepOrder ==
    ASSUME NEW old \in Row, NEW new, RowStep(old, new)
    PROVE  /\ old.status # "absent" => new.status # "absent" /\ new.login = old.login
           /\ old.status # "absent" /\ new.status = "pending"
                 => old.status = "pending" /\ new.password = old.password
<1>1. CASE Born(old, new)
  BY <1>1 DEF Born
<1>2. CASE Altered(old, new)
  <2>1. new.login = old.login /\ (new.status = "pending" => old.status = "pending")
    BY <1>2, AlteredKeeps
  <2>2. old.status # "absent" => new.status # "absent"
    BY RowStepStatus DEF Row, Standing
  <2>3. ASSUME new.status = "pending" PROVE new.password = old.password
    <3>1. ~Removed(old, new) /\ ~Activated(old, new)
      BY <2>3 DEF Removed, Deleted, Activated, Row
    <3>2. ~Administered(old, new)
      BY <2>3 DEF Administered, Row
    <3>3. CASE new = old \/ Counted(old, new) \/ Lapsed(old, new)
      BY <3>3 DEF Counted, Lapsed, Row
    <3>4. QED
      BY <1>2, <3>1, <3>2, <3>3 DEF Altered
  <2>4. QED
    BY <2>1, <2>2, <2>3
<1>3. QED
  BY <1>1, <1>2 DEF RowStep

LEMMA SessionsStay ==
    ASSUME StoreTypeOK, SessionsStep
    PROVE  MadeIn(session) \subseteq MadeIn(session')
<1> SUFFICES ASSUME NEW s \in Sessions, session[s].state # "absent"
             PROVE  session'[s].state # "absent"
  BY DEF MadeIn
<1>1. session[s] \in SessionRow /\ SessionStep(session[s], session'[s])
  BY DEF StoreTypeOK, SessionsStep
<1>2. ASSUME NEW old \in SessionRow PROVE [old EXCEPT !.state = "closed"].state # "absent"
  BY DEF SessionRow
<1>3. ASSUME NEW u PROVE [state |-> "open", user |-> u].state # "absent"
  OBVIOUS
<1>4. QED
  BY <1>1, <1>2, <1>3 DEF SessionStep

LEMMA StoreMindful ==
    ASSUME StoreInv, RowsStep, SessionsStep, link' \in BOOLEAN, faults' \in Nat, Calm(account')
    PROVE  Mindful
<1>1. StoreTypeOK
  BY DEF StoreInv
<1>2. StoreTypeOK'
  BY <1>1, StepTypes DEF StoreTypeOK
<1>3. StoreInv'
  BY <1>2, StoreInvStep
<1>4. KnownIn(account) \subseteq KnownIn(account')
  BY <1>1, RowSteps, RowStepOrder DEF KnownIn
<1>5. QED
  BY <1>1, <1>3, <1>4, SessionsStay DEF Mindful

(* Nothing becomes pending but by Begin. *)
LEMMA PendingFalls ==
    ASSUME StoreInv, Mindful, \A u \in Accounts : account[u].status = "absent" =>
                                                     account'[u].status = "absent"
    PROVE  PendingIn(account') \subseteq PendingIn(account)
<1> SUFFICES ASSUME NEW u \in Accounts, account'[u].status = "pending"
             PROVE  account[u].status = "pending" /\ account[u].attempt = "pending_legacy"
  BY DEF PendingIn
<1>1. account[u] \in Row /\ RowStep(account[u], account'[u])
  BY RowSteps DEF StoreInv, Mindful
<1>2. account[u].status = "pending"
  BY <1>1, RowStepOrder
<1>3. QED
  BY <1>2 DEF StoreInv, Coherent

-----------------------------------------------------------------------------
(* Connections. *)

(* The connection of another slot is sound whatever the database does. *)
LEMMA SoundStays ==
    ASSUME StoreTypeOK, RowsStep, NEW k, NEW t, Sound(k, t, account)
    PROVE  Sound(k, t, account')
<1>1. \A u \in Accounts : account[u] \in Row /\ RowStep(account[u], account'[u])
  BY RowSteps
<1>2. ASSUME NEW snap, Looked(snap, t, account) PROVE Looked(snap, t, account')
  <2>1. account[snap.user].status # "absent"
    BY <1>2 DEF Looked
  <2>2. QED
    BY <1>1, <1>2, <2>1, RowStepStatus, RowStepOrder DEF Looked
<1>3. ASSUME NEW u, Applied(u, t, account) PROVE Applied(u, t, account')
  <2>1. u \in Accounts /\ account[u] \in Row /\ RowStep(account[u], account'[u])
        /\ account[u].status # "absent"
    BY <1>1, <1>3 DEF Applied
  <2>2. account'[u].status # "absent" /\ account'[u].login = account[u].login
        /\ (account'[u].status = "pending" =>
                account[u].status = "pending" /\ account'[u].password = account[u].password)
    BY <2>1, RowStepOrder
  <2>3. QED
    BY <1>3, <2>1, <2>2 DEF Applied
<1>4. QED
  BY <1>2, <1>3 DEF Sound

(* The jobs after a step of slot c, whose connection becomes k. *)
JobsStep(c, k, t) ==
    /\ jobs' \subseteq Job /\ next_job' \in Nat \ {0} /\ Numbered(jobs', next_job')
    /\ \A j \in jobs' : j \in jobs \/ j.slot = c
    /\ \A j \in jobs' : j.slot = c => Answers(j, k, t)

LEMMA SlotStep ==
    ASSUME ServerInv, NEW c \in Slots, NEW k \in Client, NEW t \in Typed,
           client' = [client EXCEPT ![c] = k], typed' = [typed EXCEPT ![c] = t],
           Numbers', Mindful, Sound(k, t, account'), JobsStep(c, k, t),
           orphans \subseteq orphans',
           Passed(client[c].session, k.session, OpenIn(session), OpenIn(session'),
                  MadeIn(session), MadeIn(session'), orphans'),
           Passed(client[c].registration.user, k.registration.user, PendingIn(account),
                  PendingIn(account'), KnownIn(account), KnownIn(account'), orphans')
    PROVE  ServerInv'
<1>1. client \in [Slots -> Client] /\ typed \in [Slots -> Typed]
      /\ \A d \in Slots : Sound(client[d], typed[d], account)
  BY DEF ServerInv, Clients
<1>2. /\ client' \in [Slots -> Client] /\ typed' \in [Slots -> Typed]
      /\ client'[c] = k /\ typed'[c] = t
      /\ \A d \in Slots : d # c => client'[d] = client[d] /\ typed'[d] = typed[d]
  BY <1>1
<1>3. StoreTypeOK /\ RowsStep
  BY DEF ServerInv, StoreInv, Mindful
<1>4. ASSUME NEW d \in Slots PROVE Sound(client'[d], typed'[d], account')
  <2>1. Sound(client[d], typed[d], account')
    BY <1>1, <1>3, SoundStays
  <2>2. QED
    BY <1>2, <2>1
<1>5. Clients(client', typed', account')
  BY <1>2, <1>4 DEF Clients
<1>6. ASSUME NEW j \in jobs' PROVE Answers(j, client'[j.slot], typed'[j.slot])
  <2>1. j.slot \in Slots
    BY DEF JobsStep, Job
  <2>2. CASE j.slot = c
    BY <1>2, <2>2 DEF JobsStep
  <2>3. CASE j.slot # c
    BY <1>2, <2>1, <2>3 DEF JobsStep, ServerInv, Jobs
  <2>4. QED
    BY <2>2, <2>3
<1>7. Jobs(jobs', next_job', client', typed')
  BY <1>6 DEF Jobs, JobsStep
<1>8. Held(SessionOf(client'), OpenIn(session'), MadeIn(session'), orphans')
  <2> DEFINE f == SessionOf(client)
             f2 == SessionOf(client')
  <2>1. /\ f[c] = client[c].session /\ f2[c] = k.session
        /\ \A d \in Slots : d # c => f2[d] = f[d]
    BY <1>2 DEF SessionOf
  <2>2. Held(f, OpenIn(session), MadeIn(session), orphans)
    BY DEF ServerInv, Holdings
  <2> HIDE DEF f, f2
  <2>3. Held(f2, OpenIn(session'), MadeIn(session'), orphans')
    BY <2>1, <2>2, HeldStep
  <2>4. QED
    BY <2>3 DEF f2
<1>9. Held(UserOf(client'), PendingIn(account'), KnownIn(account'), orphans')
  <2> DEFINE f == UserOf(client)
             f2 == UserOf(client')
  <2>1. /\ f[c] = client[c].registration.user /\ f2[c] = k.registration.user
        /\ \A d \in Slots : d # c => f2[d] = f[d]
    BY <1>2 DEF UserOf
  <2>2. Held(f, PendingIn(account), KnownIn(account), orphans)
    BY DEF ServerInv, Holdings
  <2> HIDE DEF f, f2
  <2>3. Held(f2, PendingIn(account'), KnownIn(account'), orphans')
    BY <2>1, <2>2, HeldStep
  <2>4. QED
    BY <2>3 DEF f2
<1>10. StoreInv' /\ Calm(account')
  BY DEF Mindful
<1>11. QED
  BY <1>5, <1>7, <1>8, <1>9, <1>10 DEF ServerInv, Holdings

(* The fields of a connection but its output buffer. *)
Is(k, o, g, s, l, r, e) ==
    /\ k \in Client /\ k.open = o /\ k.generation = g /\ k.state = s
    /\ k.login = l /\ k.registration = r /\ k.session = e

LEMMA Nothing ==
    /\ NoLogin \in LoginAttempt /\ NoLogin.job = 0
    /\ NoRegistration \in RegistrationAttempt /\ NoRegistration.job = 0
    /\ NoRegistration.user = None /\ NoRegistration.active = FALSE
BY DEF NoLogin, LoginAttempt, NoSnapshot, NoRegistration, RegistrationAttempt

LEMMA ClientFields ==
    ASSUME NEW k \in Client
    PROVE  /\ k.open \in BOOLEAN /\ k.generation \in Nat /\ k.state \in ConnState
           /\ k.login \in LoginAttempt /\ k.registration \in RegistrationAttempt
           /\ k.session \in Sessions \cup {None} /\ k.out \in {"none", "frame", "error"}
           /\ Is(k, k.open, k.generation, k.state, k.login, k.registration, k.session)
BY DEF Client, Is

LEMMA AttemptFields ==
    /\ \A l \in LoginAttempt :
          /\ l.job \in Nat /\ l.deferred \in BOOLEAN /\ l.snap.user \in Accounts \cup {None}
          /\ l.snap.version \in Nat /\ l.snap.password \in Passwords \cup {None}
          /\ l.snap = [user |-> l.snap.user, version |-> l.snap.version,
                       password |-> l.snap.password]
    /\ \A r \in RegistrationAttempt :
          /\ r.job \in Nat /\ r.active \in BOOLEAN /\ r.login \in Logins \cup {None}
          /\ r.user \in Accounts \cup {None} /\ r.version \in Nat
BY DEF LoginAttempt, RegistrationAttempt

LEMMA WithState ==
    ASSUME NEW k \in Client, NEW s \in ConnState
    PROVE  Is([k EXCEPT !.state = s], k.open, k.generation, s, k.login, k.registration, k.session)
BY DEF Client, Is

LEMMA WithOut ==
    ASSUME NEW k \in Client, NEW x \in {"none", "frame", "error"}
    PROVE  Is([k EXCEPT !.out = x], k.open, k.generation, k.state, k.login, k.registration,
              k.session)
BY DEF Client, Is

LEMMA WithLogin ==
    ASSUME NEW k \in Client, NEW l \in LoginAttempt
    PROVE  Is([k EXCEPT !.login = l], k.open, k.generation, k.state, l, k.registration, k.session)
BY DEF Client, Is

LEMMA WithRegistration ==
    ASSUME NEW k \in Client, NEW r \in RegistrationAttempt
    PROVE  Is([k EXCEPT !.registration = r], k.open, k.generation, k.state, k.login, r, k.session)
BY DEF Client, Is

LEMMA WithSession ==
    ASSUME NEW k \in Client, NEW e \in Sessions \cup {None}
    PROVE  Is([k EXCEPT !.session = e], k.open, k.generation, k.state, k.login, k.registration, e)
BY DEF Client, Is

LEMMA FreeFacts ==
    ASSUME NEW g \in Nat
    PROVE  /\ Is(Free(g), FALSE, g, "CONNECTED", NoLogin, NoRegistration, None)
           /\ Is([Free(g) EXCEPT !.open = TRUE], TRUE, g, "CONNECTED", NoLogin, NoRegistration, None)
BY Nothing DEF Free, Client, Is, ConnState

LEMMA ReplyFacts ==
    ASSUME NEW c \in Slots, NEW kind \in {"frame", "error"}, NEW new \in Client,
           Reply(c, kind, new)
    PROVE  /\ \E k \in Client : /\ client' = [client EXCEPT ![c] = k]
                                /\ Is(k, new.open, new.generation, new.state, new.login,
                                      new.registration, new.session)
           /\ doomed' \in {doomed, c}
<1>1. CASE client[c].out = "none"
  <2> DEFINE k == [new EXCEPT !.out = kind]
  <2>1. Is(k, new.open, new.generation, new.state, new.login, new.registration, new.session)
    BY WithOut
  <2>2. client' = [client EXCEPT ![c] = k] /\ doomed' = doomed
    BY <1>1 DEF Reply
  <2>3. QED
    BY <2>1, <2>2 DEF Is
<1>2. CASE client[c].out # "none"
  <2>1. client' = [client EXCEPT ![c] = new] /\ doomed' = c
    BY <1>2 DEF Reply
  <2>2. QED
    BY <2>1, ClientFields
<1>3. QED
  BY <1>1, <1>2

LEMMA RefuseFacts ==
    ASSUME NEW c \in Slots, NEW new \in Client, Refuse(c, new)
    PROVE  /\ \E k \in Client : /\ client' = [client EXCEPT ![c] = k]
                                /\ Is(k, new.open, new.generation, "CLOSING", new.login,
                                      new.registration, new.session)
           /\ doomed' \in {doomed, c}
<1> DEFINE n == [new EXCEPT !.state = "CLOSING"]
<1>1. "CLOSING" \in ConnState
  BY DEF ConnState
<1>2. Is(n, new.open, new.generation, "CLOSING", new.login, new.registration, new.session)
  BY <1>1, WithState
<1>3. Reply(c, "error", n) /\ n \in Client
  BY <1>2 DEF Refuse, Is
<1> HIDE DEF n
<1>4. QED
  BY <1>2, <1>3, ReplyFacts DEF Is

-----------------------------------------------------------------------------
(* Steps that leave the database alone. *)

(* The jobs do not grow, and the connection takes on no other attempt. *)
Calmer(c, k, t) ==
    /\ jobs' \subseteq jobs /\ next_job' = next_job
    /\ k.login \in {client[c].login, NoLogin}
    /\ k.registration.job \in {client[c].registration.job, 0}
    /\ t = typed[c] \/ (k.login = NoLogin /\ k.registration.job = 0)

LEMMA CalmerJobs ==
    ASSUME ServerInv, NEW c \in Slots, NEW k, NEW t, Calmer(c, k, t)
    PROVE  JobsStep(c, k, t)
<1>1. /\ jobs \subseteq Job /\ next_job \in Nat \ {0} /\ Numbered(jobs, next_job)
      /\ \A j \in jobs : Answers(j, client[j.slot], typed[j.slot])
  BY DEF ServerInv, Jobs
<1>2. \A j \in jobs : j.id # 0
  BY <1>1 DEF Numbered, Job
<1>3. ASSUME NEW j \in jobs', j.slot = c PROVE Answers(j, k, t)
  <2>1. j \in jobs /\ j.id # 0 /\ Answers(j, client[c], typed[c])
    BY <1>1, <1>2, <1>3 DEF Calmer
  <2>2. QED
    BY <2>1, Nothing DEF Calmer, Answers
<1>4. QED
  BY <1>1, <1>3 DEF JobsStep, Calmer, Numbered

LEMMA Unharmed ==
    ASSUME ServerInv, account' = account, session' = session, link' \in BOOLEAN, faults' \in Nat
    PROVE  /\ Mindful
           /\ OpenIn(session') \subseteq OpenIn(session)
           /\ PendingIn(account') \subseteq PendingIn(account)
<1>1. RowsStep /\ SessionsStep
  BY NothingStep DEF ServerInv, StoreInv
<1>2. QED
  BY <1>1, StoreMindful DEF ServerInv

LEMMA SameStore ==
    ASSUME ServerInv, UNCHANGED storeVars
    PROVE  /\ account' = account /\ session' = session /\ link' \in BOOLEAN /\ faults' \in Nat
BY DEF ServerInv, StoreInv, StoreTypeOK, storeVars

(* What every step leaves typed. *)
LEMMA NumbersKept ==
    ASSUME ServerInv, NEW c \in Slots, doomed' \in {doomed, c, 0},
           daemon' \in {daemon, "running", "stopping"}, stops' \in {stops, stops + 1},
           orphans' \subseteq Sessions \cup Accounts
    PROVE  Numbers'
BY DEF ServerInv, Numbers

(* A step of slot c that keeps what it holds. *)
LEMMA KeepStep ==
    ASSUME ServerInv, NEW c \in Slots, NEW k \in Client, NEW t \in Typed,
           client' = [client EXCEPT ![c] = k], typed' = [typed EXCEPT ![c] = t],
           Numbers', Mindful, Sound(k, t, account'), JobsStep(c, k, t),
           orphans \subseteq orphans',
           k.session = client[c].session, k.registration.user = client[c].registration.user,
           OpenIn(session') \subseteq OpenIn(session),
           PendingIn(account') \subseteq PendingIn(account)
    PROVE  ServerInv'
<1>1. MadeIn(session) \subseteq MadeIn(session') /\ KnownIn(account) \subseteq KnownIn(account')
  BY DEF Mindful
<1>2. /\ Passed(client[c].session, k.session, OpenIn(session), OpenIn(session'),
                MadeIn(session), MadeIn(session'), orphans')
      /\ Passed(client[c].registration.user, k.registration.user, PendingIn(account),
                PendingIn(account'), KnownIn(account), KnownIn(account'), orphans')
  BY <1>1, PassedSame
<1>3. QED
  BY <1>2, SlotStep

LEMMA TypedKept ==
    ASSUME ServerInv, NEW c \in Slots, typed' = typed
    PROVE  typed[c] \in Typed /\ typed' = [typed EXCEPT ![c] = typed[c]]
BY DEF ServerInv, Clients

LEMMA ClientOf ==
    ASSUME ServerInv, NEW c \in Slots
    PROVE  /\ client[c] \in Client /\ Sound(client[c], typed[c], account)
           /\ typed[c] \in Typed /\ client = [client EXCEPT ![c] = client[c]]
           /\ Is(client[c], client[c].open, client[c].generation, client[c].state,
                 client[c].login, client[c].registration, client[c].session)
BY ClientFields DEF ServerInv, Clients

(* A connection whose state changes only to CLOSING stays sound. *)
LEMMA SoundClosing ==
    ASSUME NEW k, NEW t, NEW acc, Sound(k, t, acc), k.open = TRUE, NEW k2,
           NEW s \in {k.state, "CLOSING"}, NEW l \in {k.login, NoLogin},
           NEW r \in {k.registration, NoRegistration},
           Is(k2, TRUE, k.generation, s, l, r, k.session)
    PROVE  Sound(k2, t, acc)
BY Nothing DEF Sound, Is

LEMMA QuietStep ==
    ASSUME ServerInv, NEW c \in Slots, NEW k \in Client, client' = [client EXCEPT ![c] = k],
           typed' = typed, orphans' = orphans, Numbers',
           account' = account, session' = session, link' \in BOOLEAN, faults' \in Nat,
           Sound(k, typed[c], account),
           jobs' \subseteq jobs, next_job' = next_job,
           k.login \in {client[c].login, NoLogin},
           k.registration.job \in {client[c].registration.job, 0},
           k.session = client[c].session, k.registration.user = client[c].registration.user
    PROVE  ServerInv'
<1> DEFINE t == typed[c]
<1>1. t \in Typed /\ typed' = [typed EXCEPT ![c] = t]
  BY TypedKept
<1>2. /\ Mindful /\ OpenIn(session') \subseteq OpenIn(session)
      /\ PendingIn(account') \subseteq PendingIn(account)
  BY Unharmed
<1>3. Calmer(c, k, t)
  BY DEF Calmer
<1>4. JobsStep(c, k, t) /\ Sound(k, t, account')
  BY <1>3, CalmerJobs
<1> HIDE DEF t
<1>5. QED
  BY <1>1, <1>2, <1>4, KeepStep

(* The same for a connection that at most closes or gives an attempt up. *)
LEMMA ClosingStep ==
    ASSUME ServerInv, NEW c \in Slots, client[c].open,
           NEW k \in Client, client' = [client EXCEPT ![c] = k],
           typed' = typed, orphans' = orphans, Numbers',
           account' = account, session' = session, link' \in BOOLEAN, faults' \in Nat,
           jobs' \subseteq jobs, next_job' = next_job,
           NEW s \in {client[c].state, "CLOSING"}, NEW l \in {client[c].login, NoLogin},
           NEW r \in {client[c].registration, NoRegistration},
           client[c].registration.user = None \/ r = client[c].registration,
           Is(k, TRUE, client[c].generation, s, l, r, client[c].session)
    PROVE  ServerInv'
<1>1. client[c].open = TRUE /\ Sound(client[c], typed[c], account)
  BY ClientOf, ClientFields
<1>2. Sound(k, typed[c], account)
  BY <1>1, SoundClosing
<1>3. /\ k.login = l /\ k.registration = r /\ k.session = client[c].session
  BY DEF Is
<1>4. k.registration.user = client[c].registration.user
      /\ k.registration.job \in {client[c].registration.job, 0}
  BY <1>3, Nothing
<1>5. QED
  BY <1>2, <1>3, <1>4, QuietStep

LEMMA DisconnectStep ==
    ASSUME ServerInv, NEW c \in Slots, Disconnect(c) \/ ExpireHello(c) \/ WriteClient(c)
    PROVE  ServerInv'
<1>1. /\ Serving(c) /\ client[c].open /\ client[c].open = TRUE
      /\ UNCHANGED <<storeVars, daemon, jobs, next_job, typed, orphans, stops>>
  BY ClientOf, ClientFields DEF Disconnect, ExpireHello, WriteClient, Serving
<1>2. doomed' \in {doomed, c, 0}
  BY DEF Disconnect, ExpireHello, WriteClient
<1>3. Numbers'
  BY <1>1, <1>2, NumbersKept DEF ServerInv, Numbers
<1>4. account' = account /\ session' = session /\ link' \in BOOLEAN /\ faults' \in Nat
  BY <1>1, SameStore
<1>5. \E k \in Client : /\ client' = [client EXCEPT ![c] = k]
                        /\ Is(k, TRUE, client[c].generation, client[c].state, client[c].login,
                              client[c].registration, client[c].session)
  <2>1. CASE client' = client
    BY <1>1, <2>1, ClientOf
  <2>2. CASE client' = [client EXCEPT ![c].out = "none"]
    <3> DEFINE k == [client[c] EXCEPT !.out = "none"]
    <3>1. Is(k, TRUE, client[c].generation, client[c].state, client[c].login,
             client[c].registration, client[c].session)
      BY <1>1, WithOut, ClientOf
    <3>2. client' = [client EXCEPT ![c] = k]
      BY <2>2
    <3>3. QED
      BY <3>1, <3>2 DEF Is
  <2>3. QED
    BY <2>1, <2>2 DEF Disconnect, ExpireHello, WriteClient
<1>6. QED
  BY <1>1, <1>3, <1>4, <1>5, ClosingStep

LEMMA HelloStep ==
    ASSUME ServerInv, NEW c \in Slots, Hello(c)
    PROVE  ServerInv'
<1> DEFINE x == client[c]
           new == [x EXCEPT !.state = "HELLO_COMPLETE"]
<1>1. /\ x.open = TRUE /\ x.state = "CONNECTED" /\ Reply(c, "frame", new)
      /\ UNCHANGED <<storeVars, daemon, jobs, next_job, typed, orphans, stops>>
  BY ClientOf, ClientFields DEF Hello, Receiving, Serving
<1>2. Is(new, TRUE, x.generation, "HELLO_COMPLETE", x.login, x.registration, x.session)
  BY <1>1, ClientOf, WithState DEF ConnState
<1>3. new \in Client
  BY <1>2 DEF Is
<1> HIDE DEF new
<1>4. PICK k \in Client : /\ client' = [client EXCEPT ![c] = k]
                          /\ Is(k, TRUE, x.generation, "HELLO_COMPLETE", x.login,
                                x.registration, x.session)
  BY <1>1, <1>2, <1>3, ReplyFacts DEF Is
<1>5. doomed' \in {doomed, c}
  BY <1>1, <1>3, ReplyFacts
<1>6. Numbers'
  BY <1>1, <1>5, NumbersKept DEF ServerInv, Numbers
<1>7. account' = account /\ session' = session /\ link' \in BOOLEAN /\ faults' \in Nat
  BY <1>1, SameStore
<1>8. Sound(x, typed[c], account)
  BY ClientOf
<1>9. x.login = NoLogin /\ x.registration = NoRegistration /\ x.session = None
  BY <1>1, <1>8 DEF Sound
<1>10. Sound(k, typed[c], account)
  BY <1>4, <1>9, Nothing DEF Sound, Is
<1>11. k.login = x.login /\ k.registration = x.registration /\ k.session = x.session
  BY <1>4 DEF Is
<1>12. QED
  BY <1>1, <1>4, <1>6, <1>7, <1>10, <1>11, QuietStep

(* An answer that changes nothing but the state, or gives the login up. *)
LEMMA AnswerStep ==
    ASSUME ServerInv, NEW c \in Slots, client[c].open = TRUE,
           NEW l \in {client[c].login, NoLogin},
           NEW new \in Client, new = client[c] \/ new = [client[c] EXCEPT !.login = l],
           Refuse(c, new) \/ Reply(c, "error", client[c]) \/ Reply(c, "frame", client[c]),
           account' = account, session' = session, link' \in BOOLEAN, faults' \in Nat,
           jobs' \subseteq jobs, next_job' = next_job,
           UNCHANGED <<daemon, typed, orphans, stops>>
    PROVE  ServerInv'
<1> DEFINE x == client[c]
<1>1. x \in Client /\ x.login \in LoginAttempt /\ l \in LoginAttempt
  BY ClientOf, ClientFields, Nothing
<1>2. \E m \in {x.login, NoLogin} :
         Is(new, TRUE, x.generation, x.state, m, x.registration, x.session)
  BY <1>1, ClientOf, WithLogin
<1>3. \E k \in Client : /\ client' = [client EXCEPT ![c] = k]
                        /\ \E s \in {x.state, "CLOSING"}, m \in {x.login, NoLogin} :
                              Is(k, TRUE, x.generation, s, m, x.registration, x.session)
  <2>1. CASE Refuse(c, new)
    <3>1. PICK k \in Client : /\ client' = [client EXCEPT ![c] = k]
                              /\ Is(k, new.open, new.generation, "CLOSING", new.login,
                                    new.registration, new.session)
      BY <2>1, RefuseFacts
    <3>2. QED
      BY <1>2, <3>1 DEF Is
  <2>2. CASE Reply(c, "error", x) \/ Reply(c, "frame", x)
    <3>1. PICK k \in Client : /\ client' = [client EXCEPT ![c] = k]
                              /\ Is(k, x.open, x.generation, x.state, x.login,
                                    x.registration, x.session)
      BY <1>1, <2>2, ReplyFacts
    <3>2. QED
      BY <3>1
  <2>3. QED
    BY <2>1, <2>2
<1>4. doomed' \in {doomed, c}
  BY <1>1, ReplyFacts, RefuseFacts
<1>5. Numbers'
  BY <1>4, NumbersKept DEF ServerInv, Numbers
<1>6. QED
  BY <1>3, <1>5, ClosingStep, ZenonT(60)

LEMMA InvalidStep ==
    ASSUME ServerInv, NEW c \in Slots,
           InvalidFrame(c) \/ RejectedFrame(c) \/ SecondPasswordRequest(c) \/ SessionContext(c)
    PROVE  ServerInv'
<1> DEFINE x == client[c]
           n == [x EXCEPT !.login = NoLogin]
<1>1. x \in Client /\ x.open = TRUE
  BY ClientOf, ClientFields
  DEF InvalidFrame, RejectedFrame, SecondPasswordRequest, SessionContext, Receiving, Serving
<1>2. n \in Client
  BY <1>1, WithLogin, Nothing DEF Is
<1>3. UNCHANGED <<storeVars, daemon, jobs, next_job, typed, orphans, stops>>
  BY DEF InvalidFrame, RejectedFrame, SecondPasswordRequest, SessionContext
<1>4. account' = account /\ session' = session /\ link' \in BOOLEAN /\ faults' \in Nat
  BY <1>3, SameStore
<1>5. \/ Refuse(c, n) \/ Refuse(c, x) \/ Reply(c, "error", x) \/ Reply(c, "frame", x)
  BY DEF InvalidFrame, RejectedFrame, SecondPasswordRequest, SessionContext
<1>6. QED
  BY <1>1, <1>2, <1>3, <1>4, <1>5, AnswerStep

(* A completion that nobody waits for any more is wiped. *)
LEMMA DropStep ==
    ASSUME ServerInv, NEW j \in jobs, DropCompletion(j)
    PROVE  ServerInv'
<1>1. /\ jobs' = jobs \ {j} /\ client' = client
      /\ UNCHANGED <<storeVars, daemon, client, next_job, doomed, typed, orphans, stops>>
  BY DEF DropCompletion
<1> DEFINE c == j.slot
<1>2. c \in Slots
  BY DEF ServerInv, Jobs, Job
<1>3. account' = account /\ session' = session /\ link' \in BOOLEAN /\ faults' \in Nat
  BY <1>1, SameStore
<1>4. Numbers'
  BY <1>1 DEF ServerInv, Numbers
<1> HIDE DEF c
<1>5. /\ client[c] \in Client /\ Sound(client[c], typed[c], account)
      /\ client' = [client EXCEPT ![c] = client[c]]
  BY <1>1, <1>2, ClientOf
<1>6. QED
  BY <1>1, <1>2, <1>3, <1>4, <1>5, QuietStep

LEMMA JobFacts ==
    ASSUME ServerInv, NEW j \in jobs
    PROVE  /\ j.slot \in Slots /\ j.id \in Nat /\ j.id > 0 /\ j.password \in Passwords
           /\ Answers(j, client[j.slot], typed[j.slot])
BY DEF ServerInv, Jobs, Job, Numbered

LEMMA LoginRejectedStep ==
    ASSUME ServerInv, NEW j \in jobs, LoginRejected(j)
    PROVE  ServerInv'
<1> DEFINE c == j.slot
           n == [client[c] EXCEPT !.login = NoLogin]
<1>1. c \in Slots
  BY JobFacts
<1>2. /\ client[c].open /\ jobs' = jobs \ {j} /\ Refuse(c, n)
      /\ UNCHANGED <<storeVars, daemon, next_job, typed, orphans, stops>>
  BY DEF LoginRejected, MatchesLogin
<1> HIDE DEF c
<1>3. client[c] \in Client /\ client[c].open = TRUE
  BY <1>1, <1>2, ClientOf, ClientFields
<1>4. n \in Client
  BY <1>3, WithLogin, Nothing DEF Is
<1>5. account' = account /\ session' = session /\ link' \in BOOLEAN /\ faults' \in Nat
  BY <1>2, SameStore
<1>6. QED
  BY <1>1, <1>2, <1>3, <1>4, <1>5, AnswerStep

(* A registration that has no identity yet is given up. *)
LEMMA RegistrationFailedStep ==
    ASSUME ServerInv, NEW j \in jobs, RegistrationFailed(j)
    PROVE  ServerInv'
<1> DEFINE c == j.slot
           x == client[c]
           n == [x EXCEPT !.registration = NoRegistration]
<1>1. c \in Slots /\ j.id > 0
  BY JobFacts
<1>2. /\ x.open /\ x.registration.job = j.id /\ jobs' = jobs \ {j} /\ Refuse(c, n)
      /\ UNCHANGED <<storeVars, daemon, next_job, typed, orphans, stops>>
  BY DEF RegistrationFailed, MatchesRegistration
<1> HIDE DEF c
<1>3. x \in Client /\ x.open = TRUE /\ Sound(x, typed[c], account)
  BY <1>1, <1>2, ClientOf, ClientFields
<1>4. x.registration.user = None
  BY <1>1, <1>2, <1>3, JobFacts DEF Sound
<1>5. Is(n, TRUE, x.generation, x.state, x.login, NoRegistration, x.session)
  BY <1>3, WithRegistration, Nothing
<1>6. n \in Client
  BY <1>5 DEF Is
<1> HIDE DEF n
<1>7. account' = account /\ session' = session /\ link' \in BOOLEAN /\ faults' \in Nat
  BY <1>2, SameStore
<1>8. PICK k \in Client : /\ client' = [client EXCEPT ![c] = k]
                          /\ Is(k, TRUE, x.generation, "CLOSING", x.login, NoRegistration,
                                x.session)
  BY <1>1, <1>2, <1>5, <1>6, RefuseFacts DEF Is
<1>9. doomed' \in {doomed, c}
  BY <1>1, <1>2, <1>6, RefuseFacts
<1>10. Numbers'
  BY <1>1, <1>2, <1>9, NumbersKept DEF ServerInv, Numbers
<1>11. QED
  BY <1>1, <1>2, <1>4, <1>7, <1>8, <1>10, ClosingStep

-----------------------------------------------------------------------------
(* What the calls do to what is held. *)

LEMMA RowsTyped ==
    ASSUME ServerInv
    PROVE  /\ StoreInv /\ StoreTypeOK /\ link \in BOOLEAN /\ faults \in Nat
           /\ account \in [Accounts -> Row] /\ session \in [Sessions -> SessionRow]
           /\ \A u \in Accounts : account[u] \in Row
           /\ \A u \in Accounts : account[u].status = "pending" => account[u].throttled = FALSE
BY DEF ServerInv, StoreInv, StoreTypeOK, Calm

(* A call that alters rows, none of which is absent or becomes throttled   *)
(* while it is pending.                                                    *)
LEMMA AlterMindful ==
    ASSUME ServerInv, RowsStep, SessionsStep, NEW o, Answered(o),
           \A u \in Accounts : account[u].status = "absent" => account'[u].status = "absent",
           Calm(account')
    PROVE  Mindful /\ PendingIn(account') \subseteq PendingIn(account)
<1>1. link' \in BOOLEAN /\ faults' \in Nat
  BY RowsTyped, AnswerType
<1>2. Mindful
  BY <1>1, RowsTyped, StoreMindful
<1>3. QED
  BY <1>2, RowsTyped, PendingFalls

LEMMA DeletedFacts ==
    ASSUME NEW row \in Row, NEW v
    PROVE  Deleted(row, v).status = "deleted"
BY DEF Deleted, Row

LEMMA WithdrawFacts ==
    ASSUME ServerInv, NEW U \in SUBSET Accounts, NEW v, account' = Withdrawn(U, v),
           \A u \in U : Pending(u)
    PROVE  /\ \A u \in Accounts : account[u].status = "absent" => account'[u].status = "absent"
           /\ Calm(account')
           /\ \A u \in U : account'[u].status = "deleted"
<1>1. \A u \in Accounts : account'[u] = IF u \in U THEN Deleted(account[u], v) ELSE account[u]
  BY DEF Withdrawn
<1>2. \A u \in U : account'[u].status = "deleted"
  BY <1>1, RowsTyped, DeletedFacts
<1>3. \A u \in Accounts : u \notin U => account'[u] = account[u]
  BY <1>1
<1>4. QED
  BY <1>2, <1>3, RowsTyped DEF Calm, Pending

LEMMA AbortMindful ==
    ASSUME ServerInv, NEW u \in Accounts, NEW o \in Outcome, AbortRegistration(u, o)
    PROVE  /\ Mindful /\ PendingIn(account') \subseteq PendingIn(account)
           /\ session' = session /\ OpenIn(session') \subseteq OpenIn(session)
           /\ Executed(o) => u \notin PendingIn(account')
<1>1. RowsStep /\ SessionsStep /\ Answered(o) /\ session' = session
  BY RowsTyped, AbortStep DEF AbortRegistration
<1>2. CASE Executed(o) /\ Pending(u)
  <2>1. account' = Withdrawn({u}, "aborted")
    BY <1>2 DEF AbortRegistration
  <2>2. /\ \A w \in Accounts : account[w].status = "absent" => account'[w].status = "absent"
        /\ Calm(account') /\ account'[u].status = "deleted"
    BY <1>2, <2>1, WithdrawFacts
  <2>3. QED
    BY <1>1, <2>2, AlterMindful DEF PendingIn
<1>3. CASE ~(Executed(o) /\ Pending(u))
  <2>1. account' = account
    BY <1>3 DEF AbortRegistration
  <2>2. Calm(account')
    BY <2>1, RowsTyped DEF Calm
  <2>3. Mindful /\ PendingIn(account') \subseteq PendingIn(account)
    BY <1>1, <2>1, <2>2, AlterMindful
  <2>4. Executed(o) => u \notin PendingIn(account')
    BY <1>3, <2>1 DEF PendingIn, Pending
  <2>5. QED
    BY <1>1, <2>3, <2>4
<1>4. QED
  BY <1>2, <1>3

LEMMA ExpireMindful ==
    ASSUME ServerInv, NEW o \in Outcome, ExpireRegistrations(o)
    PROVE  /\ Mindful /\ PendingIn(account') \subseteq PendingIn(account)
           /\ session' = session
<1>1. RowsStep /\ SessionsStep /\ Answered(o) /\ session' = session
  BY RowsTyped, ExpireStep DEF ExpireRegistrations
<1> DEFINE U == {u \in Accounts : Pending(u) /\ account[u].expired}
<1>2. account' = Withdrawn(U, "failed") \/ account' = account
  BY DEF ExpireRegistrations
<1>3. U \in SUBSET Accounts /\ \A u \in U : Pending(u)
  OBVIOUS
<1> HIDE DEF U
<1>4. /\ \A u \in Accounts : account[u].status = "absent" => account'[u].status = "absent"
      /\ Calm(account')
  <2>1. CASE account' = account
    BY <2>1, RowsTyped DEF Calm
  <2>2. CASE account' = Withdrawn(U, "failed")
    BY <1>3, <2>2, WithdrawFacts
  <2>3. QED
    BY <1>2, <2>1, <2>2
<1>5. QED
  BY <1>1, <1>4, AlterMindful

LEMMA CloseMindful ==
    ASSUME ServerInv, NEW s \in Sessions, NEW o \in Outcome, CloseTerminalSession(s, o)
    PROVE  /\ Mindful /\ PendingIn(account') \subseteq PendingIn(account)
           /\ OpenIn(session') \subseteq OpenIn(session)
           /\ Executed(o) => s \notin OpenIn(session')
<1>1. RowsStep /\ SessionsStep /\ Answered(o) /\ account' = account
  BY RowsTyped, CloseStep DEF CloseTerminalSession
<1>2. Calm(account')
  BY <1>1, RowsTyped DEF Calm
<1>3. Mindful /\ PendingIn(account') \subseteq PendingIn(account)
  BY <1>1, <1>2, AlterMindful
<1>4. CASE Executed(o) /\ session[s].state = "open"
  <2>1. session' = [session EXCEPT ![s].state = "closed"]
    BY <1>4 DEF CloseTerminalSession
  <2>2. \A e \in Sessions : e # s => session'[e] = session[e]
    BY <2>1, RowsTyped
  <2>3. session'[s].state = "closed"
    BY <2>1, RowsTyped DEF SessionRow
  <2>4. QED
    BY <1>3, <2>2, <2>3 DEF OpenIn
<1>5. CASE ~(Executed(o) /\ session[s].state = "open")
  <2>1. session' = session
    BY <1>5 DEF CloseTerminalSession
  <2>2. QED
    BY <1>3, <1>5, <2>1 DEF OpenIn
<1>6. QED
  BY <1>4, <1>5

(* A session is opened: nobody can have held it before. *)
LEMMA OpenedFacts ==
    ASSUME ServerInv, NEW u \in Accounts, NEW s \in Sessions, session' = Opened(u, s)
    PROVE  /\ OpenIn(session') \subseteq OpenIn(session) \cup {s}
           /\ s \in MadeIn(session') /\ session'[s].user = u
           /\ \A e \in Sessions : e # s => session'[e] = session[e]
<1>1. /\ session'[s] = [state |-> "open", user |-> u]
      /\ \A e \in Sessions : e # s => session'[e] = session[e]
  BY RowsTyped DEF Opened
<1>2. session'[s].state = "open" /\ session'[s].user = u
  BY <1>1
<1>3. QED
  BY <1>1, <1>2 DEF OpenIn, MadeIn

LEMMA CommitMindful ==
    ASSUME ServerInv, NEW u \in Accounts, NEW v \in Nat, NEW s \in Sessions, NEW o \in Outcome,
           CommitRegistration(u, v, s, o)
    PROVE  /\ Mindful /\ PendingIn(account') \subseteq PendingIn(account)
           /\ Executed(o) /\ Committable(u, v) =>
                 /\ session[s].state = "absent" /\ session' = Opened(u, s)
                 /\ u \notin PendingIn(account')
                 /\ account'[u].status = "active" /\ account'[u].role = TRUE
           /\ ~(Executed(o) /\ Committable(u, v)) => session' = session
<1>1. RowsStep /\ SessionsStep /\ Answered(o)
  BY RowsTyped, CommitStep DEF CommitRegistration
<1>2. CASE Executed(o) /\ Committable(u, v)
  <2> DEFINE row == [account[u] EXCEPT !.status = "active", !.role = TRUE,
                                       !.version = @ + 1, !.attempt = "completed"]
  <2>1. /\ account' = [account EXCEPT ![u].status = "active", ![u].role = TRUE,
                                      ![u].version = @ + 1, ![u].attempt = "completed"]
        /\ session[s].state = "absent" /\ session' = Opened(u, s)
    BY <1>2 DEF CommitRegistration
  <2>2. account' = [account EXCEPT ![u] = row]
    BY <2>1, RowsTyped DEF Row
  <2>3. row.status = "active" /\ row.role = TRUE
    BY RowsTyped DEF Row
  <2> HIDE DEF row
  <2>4. account'[u] = row /\ \A w \in Accounts : w # u => account'[w] = account[w]
    BY <2>2, RowsTyped
  <2>5. account[u].status = "pending"
    BY <1>2 DEF Committable, Pending
  <2>6. /\ \A w \in Accounts : account[w].status = "absent" => account'[w].status = "absent"
        /\ Calm(account')
    BY <2>3, <2>4, <2>5, RowsTyped DEF Calm
  <2>7. QED
    BY <1>1, <1>2, <2>1, <2>3, <2>4, <2>6, AlterMindful DEF PendingIn
<1>3. CASE ~(Executed(o) /\ Committable(u, v))
  <2>1. account' = account /\ session' = session
    BY <1>3 DEF CommitRegistration
  <2>2. Calm(account')
    BY <2>1, RowsTyped DEF Calm
  <2>3. QED
    BY <1>1, <1>3, <2>1, <2>2, AlterMindful
<1>4. QED
  BY <1>2, <1>3

LEMMA FailureCount ==
    ASSUME NEW row \in Row
    PROVE  LET r == [row EXCEPT !.failures = 0]
           IN  /\ r.status = row.status /\ r.throttled = row.throttled /\ r.role = row.role
BY DEF Row

LEMMA LoginMindful ==
    ASSUME ServerInv, NEW snap, NEW u \in Accounts, NEW v \in Nat,
           NEW p \in Passwords \cup {None}, snap = [user |-> u, version |-> v, password |-> p],
           NEW s \in Sessions, NEW o \in Outcome, CreatePasswordSession(snap, s, o)
    PROVE  /\ Mindful /\ PendingIn(account') \subseteq PendingIn(account)
           /\ Executed(o) /\ SessionVerdict(snap) = "ok" =>
                 session[s].state = "absent" /\ session' = Opened(u, s)
           /\ ~(Executed(o) /\ SessionVerdict(snap) = "ok") => session' = session
           /\ account'[u].status = account[u].status /\ account'[u].role = account[u].role
<1> DEFINE x == [user |-> u, version |-> v, password |-> p]
<1>a. CreatePasswordSession(x, s, o)
  OBVIOUS
<1>b. Answered(o)
  BY DEF CreatePasswordSession
<1>1. RowsStep /\ SessionsStep /\ Answered(o)
  BY <1>a, <1>b, RowsTyped, LoginStep
<1>2. snap.user = u
  OBVIOUS
<1>3. /\ account' = account \/ account' = [account EXCEPT ![u].failures = 0]
      /\ Executed(o) /\ SessionVerdict(snap) = "ok" =>
             session[s].state = "absent" /\ session' = Opened(u, s)
      /\ ~(Executed(o) /\ SessionVerdict(snap) = "ok") => session' = session
  BY <1>2 DEF CreatePasswordSession
<1>4. \A w \in Accounts : /\ account'[w].status = account[w].status
                          /\ account'[w].throttled = account[w].throttled
                          /\ account'[w].role = account[w].role
  <2>1. CASE account' = account
    BY <2>1
  <2>2. CASE account' = [account EXCEPT ![u].failures = 0]
    <3> DEFINE r == [account[u] EXCEPT !.failures = 0]
    <3>1. account' = [account EXCEPT ![u] = r]
      BY <2>2
    <3>2. r.status = account[u].status /\ r.throttled = account[u].throttled
          /\ r.role = account[u].role
      BY RowsTyped, FailureCount
    <3> HIDE DEF r
    <3>3. QED
      BY <3>1, <3>2, RowsTyped
  <2>3. QED
    BY <1>3, <2>1, <2>2
<1>5. Calm(account')
  BY <1>4, RowsTyped DEF Calm
<1>6. QED
  BY <1>1, <1>3, <1>4, <1>5, AlterMindful

LEMMA FailureMindful ==
    ASSUME ServerInv, NEW u \in Accounts, account[u].status \in {"active", "disabled"},
           NEW o \in Outcome, RecordPasswordFailure(u, o)
    PROVE  /\ Mindful /\ PendingIn(account') \subseteq PendingIn(account)
           /\ session' = session
<1>1. RowsStep /\ SessionsStep /\ Answered(o) /\ session' = session
  BY RowsTyped, FailureStep DEF RecordPasswordFailure
<1>2. account' = [account EXCEPT ![u] = account'[u]]
  <2>1. PICK n \in {1, account[u].failures + 1} :
           account' = IF Executed(o) /\ account[u].password # None
                      THEN [account EXCEPT
                              ![u].failures = IF n > CountLimit THEN CountLimit ELSE n,
                              ![u].throttled = @ \/ n >= Threshold]
                      ELSE account
    BY DEF RecordPasswordFailure
  <2>2. QED
    BY <2>1, RowsTyped
<1>3. \A w \in Accounts : w # u => account'[w] = account[w]
  BY <1>2, RowsTyped
<1>4. account'[u].status \in {"active", "disabled"}
  BY <1>1, RowsTyped, RowSteps, RowStepStatus
<1>5. /\ \A w \in Accounts : account[w].status = "absent" => account'[w].status = "absent"
      /\ Calm(account')
  BY <1>3, <1>4, RowsTyped DEF Calm
<1>6. QED
  BY <1>1, <1>5, AlterMindful

LEMMA NewRowFacts ==
    ASSUME NEW l, NEW p
    PROVE  LET r == NewRow("pending", l, p, "pending_legacy")
           IN  r.status = "pending" /\ r.login = l /\ r.password = p /\ r.throttled = FALSE
BY DEF NewRow

LEMMA BeginMindful ==
    ASSUME ServerInv, NEW l \in Logins, NEW p \in Passwords, NEW u \in Accounts,
           NEW o \in Outcome, BeginRegistration(l, p, u, o)
    PROVE  /\ Mindful /\ session' = session
           /\ Executed(o) /\ BeginVerdict(l) = "ok" =>
                 /\ PendingIn(account') \subseteq PendingIn(account) \cup {u}
                 /\ u \notin KnownIn(account) /\ u \in KnownIn(account')
                 /\ account'[u].status = "pending" /\ account'[u].login = l
                 /\ account'[u].password = p
           /\ ~(Executed(o) /\ BeginVerdict(l) = "ok") => account' = account
<1>1. RowsStep /\ SessionsStep /\ Answered(o) /\ session' = session
  BY RowsTyped, BeginStep DEF BeginRegistration
<1>2. link' \in BOOLEAN /\ faults' \in Nat
  BY <1>1, RowsTyped, AnswerType
<1>3. CASE Executed(o) /\ BeginVerdict(l) = "ok"
  <2> DEFINE r == NewRow("pending", l, p, "pending_legacy")
  <2>1. account' = [account EXCEPT ![u] = r] /\ account[u].status = "absent"
    BY <1>3 DEF BeginRegistration
  <2>2. r.status = "pending" /\ r.login = l /\ r.password = p /\ r.throttled = FALSE
    BY NewRowFacts
  <2> HIDE DEF r
  <2>3. account'[u] = r /\ \A w \in Accounts : w # u => account'[w] = account[w]
    BY <2>1, RowsTyped
  <2>4. Calm(account')
    BY <2>2, <2>3, RowsTyped DEF Calm
  <2>5. Mindful
    BY <1>1, <1>2, <2>4, RowsTyped, StoreMindful
  <2>6. PendingIn(account') \subseteq PendingIn(account) \cup {u}
    BY <2>3 DEF PendingIn
  <2>7. QED
    BY <1>1, <1>3, <2>1, <2>2, <2>3, <2>5, <2>6 DEF KnownIn
<1>4. CASE ~(Executed(o) /\ BeginVerdict(l) = "ok")
  <2>1. account' = account
    BY <1>4 DEF BeginRegistration
  <2>2. Calm(account')
    BY <2>1, RowsTyped DEF Calm
  <2>3. Mindful
    BY <1>1, <1>2, <2>2, RowsTyped, StoreMindful
  <2>4. QED
    BY <1>1, <1>4, <2>1, <2>3
<1>5. QED
  BY <1>3, <1>4

LEMMA WorldMindful ==
    ASSUME ServerInv, World
    PROVE  /\ Mindful /\ PendingIn(account') \subseteq PendingIn(account)
           /\ session' = session
<1>1. RowsStep /\ SessionsStep
  BY RowsTyped, WorldStep
<1>2. session' = session /\ link' \in BOOLEAN /\ faults' \in Nat
  <2>1. ASSUME NEW u \in Accounts, Elapse(u) \/ ThrottleEnds(u) \/ Administer(u)
        PROVE  session' = session /\ link' = link /\ faults' = faults
    BY <2>1, Zenon DEF Elapse, ThrottleEnds, Administer
  <2>2. ASSUME LinkBreaks
        PROVE  session' = session /\ link' = FALSE /\ faults' = faults + 1
    BY <2>2, Zenon DEF LinkBreaks
  <2>3. \/ session' = session /\ link' = link /\ faults' = faults
        \/ session' = session /\ link' = FALSE /\ faults' = faults + 1
    BY <2>1, <2>2, Zenon DEF World
  <2>4. link \in BOOLEAN /\ faults \in Nat
    BY RowsTyped
  <2>5. session' = session /\ link' \in BOOLEAN
    BY <2>3, <2>4, Zenon
  <2>6. faults' = faults \/ faults' = faults + 1
    BY <2>3, Zenon
  <2>7. QED
    BY <2>4, <2>5, <2>6
<1>3. Calm(account') /\ \A w \in Accounts : account[w].status = "absent" =>
                                               account'[w].status = "absent"
  <2>1. ASSUME NEW u \in Accounts, NEW r, account' = [account EXCEPT ![u] = r],
               \/ r.status = account[u].status /\ r.throttled \in {account[u].throttled, FALSE}
               \/ account[u].status # "absent" /\ r.status \in {"active", "disabled"}
        PROVE  /\ Calm(account')
               /\ \A w \in Accounts : account[w].status = "absent" =>
                                         account'[w].status = "absent"
    <3>1. account'[u] = r /\ \A w \in Accounts : w # u => account'[w] = account[w]
      BY <2>1, RowsTyped
    <3>2. QED
      BY <2>1, <3>1, RowsTyped DEF Calm
  <2>2. ASSUME NEW u \in Accounts, Elapse(u) PROVE <1>3!1 /\ <1>3!2
    <3> DEFINE r == [account[u] EXCEPT !.expired = TRUE]
    <3>1. account' = [account EXCEPT ![u] = r]
      BY <2>2 DEF Elapse
    <3>2. r.status = account[u].status /\ r.throttled = account[u].throttled
      BY RowsTyped DEF Row
    <3> HIDE DEF r
    <3>3. QED
      BY <2>1, <3>1, <3>2
  <2>3. ASSUME NEW u \in Accounts, ThrottleEnds(u) PROVE <1>3!1 /\ <1>3!2
    <3> DEFINE r == [account[u] EXCEPT !.throttled = FALSE]
    <3>1. account' = [account EXCEPT ![u] = r]
      BY <2>3 DEF ThrottleEnds
    <3>2. r.status = account[u].status /\ r.throttled = FALSE
      BY RowsTyped DEF Row
    <3> HIDE DEF r
    <3>3. QED
      BY <2>1, <3>1, <3>2
  <2>4. ASSUME NEW u \in Accounts, Administer(u) PROVE <1>3!1 /\ <1>3!2
    <3>1. PICK s \in {"active", "disabled"}, p \in Passwords, b \in BOOLEAN,
               v \in {account[u].version, account[u].version + 1} :
             account' = [account EXCEPT ![u].status = s, ![u].password = p,
                                        ![u].role = b, ![u].version = v]
      BY <2>4, ZenonT(60) DEF Administer
    <3> DEFINE r == [account[u] EXCEPT !.status = s, !.password = p, !.role = b, !.version = v]
    <3>2. account' = [account EXCEPT ![u] = r]
      BY <3>1, RowsTyped DEF Row
    <3>3. r.status = s
      BY RowsTyped DEF Row
    <3>4. account[u].status # "absent"
      BY <2>4 DEF Administer
    <3> HIDE DEF r
    <3>5. QED
      BY <2>1, <3>2, <3>3, <3>4
  <2>5. ASSUME LinkBreaks PROVE <1>3!1 /\ <1>3!2
    BY <2>5, RowsTyped DEF LinkBreaks, Calm
  <2>6. QED
    BY <2>2, <2>3, <2>4, <2>5 DEF World
<1>4. Mindful
  BY <1>1, <1>2, <1>3, RowsTyped, StoreMindful
<1>5. QED
  BY <1>2, <1>3, <1>4, RowsTyped, PendingFalls

-----------------------------------------------------------------------------
(* What a slot lets go of, and what it comes to hold. *)

LEMMA PassedLet ==
    ASSUME NEW x, NEW A, NEW A2, NEW B, NEW B2, NEW lost,
           A2 \subseteq A, B \subseteq B2, x \notin A2 \ lost
    PROVE  Passed(x, None, A, A2, B, B2, lost)
BY DEF Passed

LEMMA PassedMade ==
    ASSUME NEW x, NEW A, NEW A2, NEW B, NEW B2, NEW lost, None \notin A,
           A2 \subseteq A \cup {x}, B \subseteq B2, x \notin B, x \in B2
    PROVE  Passed(None, x, A, A2, B, B2, lost)
BY DEF Passed

LEMMA PassedLost ==
    ASSUME NEW x, NEW y, NEW A, NEW A2, NEW B, NEW B2, NEW lost,
           A2 \subseteq A \cup {y}, B \subseteq B2, y \in lost
    PROVE  Passed(x, x, A, A2, B, B2, lost)
BY DEF Passed

LEMMA NotHeld ==
    /\ None \notin OpenIn(session) /\ None \notin PendingIn(account)
BY Constants DEF OpenIn, PendingIn

(* A slot without any attempt, whatever its peer has typed. *)
LEMMA SoundIdle ==
    ASSUME NEW k, NEW t, NEW acc, NEW o, NEW g \in Nat,
           NEW s \in ConnState \ {"SESSION_BOUND"}, o = TRUE \/ k = Free(g),
           Is(k, o, g, s, NoLogin, NoRegistration, None)
    PROVE  Sound(k, t, acc)
BY Nothing DEF Sound, Is

LEMMA CalmAttempts ==
    ASSUME ServerInv, NEW c \in Slots, NEW k, NEW t, jobs' \subseteq jobs, next_job' = next_job,
           k.login \in {client[c].login, NoLogin},
           k.registration \in {client[c].registration, NoRegistration},
           t = typed[c] \/ (k.login = NoLogin /\ k.registration = NoRegistration)
    PROVE  JobsStep(c, k, t)
<1>1. Calmer(c, k, t)
  BY Nothing DEF Calmer
<1>2. QED
  BY <1>1, CalmerJobs

NothingTyped == [login |-> None, password |-> None]

LEMMA AcceptStep ==
    ASSUME ServerInv, NEW c \in Slots, Accept(c)
    PROVE  ServerInv'
<1> DEFINE g == client[c].generation + 1
           k == [Free(g) EXCEPT !.open = TRUE]
           t == NothingTyped
<1>1. /\ ~client[c].open /\ client' = [client EXCEPT ![c] = k]
      /\ typed' = [typed EXCEPT ![c] = t]
      /\ UNCHANGED <<storeVars, daemon, jobs, next_job, doomed, orphans, stops>>
  BY DEF Accept, FirstFree, NothingTyped
<1>2. g \in Nat /\ client[c].open = FALSE
  BY <1>1, ClientOf, ClientFields
<1>3. Is(k, TRUE, g, "CONNECTED", NoLogin, NoRegistration, None)
  BY <1>2, FreeFacts
<1>4. t \in Typed
  BY DEF NothingTyped, Typed
<1> HIDE DEF k, t, g
<1>5. k \in Client /\ k.login = NoLogin /\ k.registration = NoRegistration /\ k.session = None
  BY <1>3 DEF Is
<1>6. client[c] = Free(client[c].generation) /\ client[c].generation \in Nat
  BY <1>2, ClientOf, ClientFields DEF Sound
<1>7. client[c].session = None /\ client[c].registration = NoRegistration
  <2> DEFINE h == client[c].generation
  <2>1. Is(Free(h), FALSE, h, "CONNECTED", NoLogin, NoRegistration, None)
    BY <1>6, FreeFacts
  <2>2. QED
    BY <1>6, <2>1 DEF Is
<1>8. "CONNECTED" \in ConnState \ {"SESSION_BOUND"}
  BY DEF ConnState
<1>9. Sound(k, t, account')
  BY <1>2, <1>3, <1>8, SoundIdle
<1>10. account' = account /\ session' = session /\ link' \in BOOLEAN /\ faults' \in Nat
  BY <1>1, SameStore
<1>11. /\ Mindful /\ OpenIn(session') \subseteq OpenIn(session)
       /\ PendingIn(account') \subseteq PendingIn(account)
  BY <1>10, Unharmed
<1>12. JobsStep(c, k, t)
  BY <1>1, <1>5, CalmAttempts
<1>13. Numbers'
  BY <1>1 DEF ServerInv, Numbers
<1>14. QED
  BY <1>1, <1>4, <1>5, <1>7, <1>9, <1>11, <1>12, <1>13, KeepStep

(* client_reset: what the slot held is released in the database, or the    *)
(* daemon has lost sight of it.                                            *)
LEMMA ReleaseStep ==
    ASSUME ServerInv, NEW c \in Slots, NEW o \in Outcome, Release(c, o)
    PROVE  /\ Mindful /\ orphans \subseteq orphans' /\ orphans' \subseteq Sessions \cup Accounts
           /\ OpenIn(session') \subseteq OpenIn(session)
           /\ Passed(client[c].session, None, OpenIn(session), OpenIn(session'),
                     MadeIn(session), MadeIn(session'), orphans')
           /\ Passed(client[c].registration.user, None, PendingIn(account),
                     PendingIn(account'), KnownIn(account), KnownIn(account'), orphans')
<1> DEFINE x == client[c]
           u == x.registration.user
           e == x.session
<1>1. Sound(x, typed[c], account) /\ e \in Sessions \cup {None}
  BY ClientOf, ClientFields
<1>2. orphans \subseteq Sessions \cup Accounts
  BY DEF ServerInv, Numbers
<1>a. ASSUME Mindful PROVE MadeIn(session) \subseteq MadeIn(session')
                           /\ KnownIn(account) \subseteq KnownIn(account')
  BY <1>a DEF Mindful
<1>3. CASE /\ DatabasePending(c) /\ AbortRegistration(u, o)
           /\ orphans' = IF ~Executed(o) THEN orphans \cup {u} ELSE orphans
  <2>1. u # None
    BY <1>3 DEF DatabasePending
  <2>2. e = None /\ u \in Accounts
    BY <1>1, <2>1, Nothing DEF Sound, Applied
  <2> HIDE DEF u, e
  <2>3. /\ Mindful /\ PendingIn(account') \subseteq PendingIn(account)
        /\ session' = session /\ OpenIn(session') \subseteq OpenIn(session)
        /\ Executed(o) => u \notin PendingIn(account')
    BY <1>3, <2>2, AbortMindful
  <2>4. Passed(e, None, OpenIn(session), OpenIn(session'), MadeIn(session), MadeIn(session'), orphans')
    BY <1>a, <2>2, <2>3, PassedSame
  <2>5. u \notin PendingIn(account') \ orphans'
    BY <1>3, <2>3
  <2>6. Passed(u, None, PendingIn(account), PendingIn(account'), KnownIn(account),
               KnownIn(account'), orphans')
    BY <1>a, <2>3, <2>5, PassedLet
  <2>7. orphans \subseteq orphans' /\ orphans' \subseteq Sessions \cup Accounts
    BY <1>2, <1>3, <2>2
  <2>8. QED
    BY <2>3, <2>4, <2>6, <2>7 DEF u, e
<1>4. CASE /\ e # None /\ CloseTerminalSession(e, o)
           /\ orphans' = IF ~Executed(o) THEN orphans \cup {e} ELSE orphans
  <2>1. u = None /\ e \in Sessions
    BY <1>1, <1>4, Nothing DEF Sound
  <2> HIDE DEF u, e
  <2>2. /\ Mindful /\ PendingIn(account') \subseteq PendingIn(account)
        /\ OpenIn(session') \subseteq OpenIn(session)
        /\ Executed(o) => e \notin OpenIn(session')
    BY <1>4, <2>1, CloseMindful
  <2>3. e \notin OpenIn(session') \ orphans'
    BY <1>4, <2>2
  <2>4. Passed(e, None, OpenIn(session), OpenIn(session'), MadeIn(session), MadeIn(session'), orphans')
    BY <1>a, <2>2, <2>3, PassedLet
  <2>5. Passed(u, None, PendingIn(account), PendingIn(account'), KnownIn(account),
               KnownIn(account'), orphans')
    BY <1>a, <2>1, <2>2, PassedSame
  <2>6. orphans \subseteq orphans' /\ orphans' \subseteq Sessions \cup Accounts
    BY <1>2, <1>4, <2>1
  <2>7. QED
    BY <2>2, <2>4, <2>5, <2>6 DEF u, e
<1>5. CASE ~DatabasePending(c) /\ e = None /\ UNCHANGED <<storeVars, orphans>>
  <2>1. u = None
    BY <1>5 DEF DatabasePending
  <2> HIDE DEF u, e
  <2>2. account' = account /\ session' = session /\ link' \in BOOLEAN /\ faults' \in Nat
    BY <1>5, SameStore
  <2>3. /\ Mindful /\ OpenIn(session') \subseteq OpenIn(session)
        /\ PendingIn(account') \subseteq PendingIn(account)
    BY <2>2, Unharmed
  <2>4. /\ Passed(e, None, OpenIn(session), OpenIn(session'), MadeIn(session),
                  MadeIn(session'), orphans')
        /\ Passed(u, None, PendingIn(account), PendingIn(account'), KnownIn(account),
                  KnownIn(account'), orphans')
    BY <1>a, <1>5, <2>1, <2>3, PassedSame
  <2>5. QED
    BY <1>2, <1>5, <2>3, <2>4 DEF u, e
<1>6. QED
  BY <1>3, <1>4, <1>5 DEF Release

LEMMA ResetStep ==
    ASSUME ServerInv, NEW c \in Slots, NEW o \in Outcome, ClientReset(c, o)
    PROVE  ServerInv'
<1> DEFINE g == client[c].generation
           k == Free(g)
           t == NothingTyped
<1>1. /\ Release(c, o) /\ client' = [client EXCEPT ![c] = k]
      /\ typed' = [typed EXCEPT ![c] = t] /\ doomed' = 0
      /\ UNCHANGED <<daemon, jobs, next_job, stops>>
  BY DEF ClientReset, NothingTyped
<1>2. g \in Nat
  BY ClientOf, ClientFields
<1>3. Is(k, FALSE, g, "CONNECTED", NoLogin, NoRegistration, None)
  BY <1>2, FreeFacts
<1>4. t \in Typed
  BY DEF NothingTyped, Typed
<1>5. "CONNECTED" \in ConnState \ {"SESSION_BOUND"}
  BY DEF ConnState
<1>6. Sound(k, t, account')
  BY <1>2, <1>3, <1>5, SoundIdle
<1> HIDE DEF k, t, g
<1>7. k \in Client /\ k.login = NoLogin /\ k.registration = NoRegistration /\ k.session = None
      /\ k.registration.user = None
  BY <1>3, Nothing DEF Is
<1>8. JobsStep(c, k, t)
  BY <1>1, <1>7, CalmAttempts
<1>9. Numbers'
  BY <1>1, ReleaseStep, NumbersKept
<1>10. QED
  BY <1>1, <1>4, <1>6, <1>7, <1>8, <1>9, ReleaseStep, SlotStep

-----------------------------------------------------------------------------
(* Steps of a connection that call the database. *)

(* A connection with an identity of its own. *)
LEMMA Registering ==
    ASSUME ServerInv, NEW c \in Slots, DatabasePending(c)
    PROVE  /\ client[c] \in Client /\ client[c].registration # NoRegistration
           /\ client[c].login = NoLogin /\ client[c].session = None
           /\ client[c].registration.job = 0
           /\ client[c].registration.user \in Accounts
           /\ client[c].registration.version \in Nat
           /\ Applied(client[c].registration.user, typed[c], account)
<1>1. client[c] \in Client /\ Sound(client[c], typed[c], account)
  BY ClientOf
<1>2. client[c].registration.user # None
  BY DEF DatabasePending
<1>3. client[c].registration # NoRegistration
  BY <1>2, Nothing
<1>4. client[c].registration \in RegistrationAttempt
  BY <1>1, ClientFields
<1>5. QED
  BY <1>1, <1>2, <1>3, <1>4, AttemptFields DEF Sound, Applied

LEMMA ExpireStepOf ==
    ASSUME ServerInv, NEW c \in Slots, NEW o \in Outcome, ExpireRegistration(c, o)
    PROVE  ServerInv'
<1> DEFINE x == client[c]
           u == x.registration.user
<1>1. /\ x.open /\ DatabasePending(c) /\ AbortRegistration(u, o) /\ doomed' = c
      /\ UNCHANGED <<daemon, jobs, next_job, typed, stops>>
  BY DEF ExpireRegistration, Serving
<1>2. PICK cleared \in BOOLEAN :
         /\ o = "ok" => cleared
         /\ client' = [client EXCEPT
                         ![c].state = "CLOSING",
                         ![c].registration = IF cleared THEN NoRegistration ELSE @]
         /\ orphans' = IF cleared /\ ~Executed(o) THEN orphans \cup {u} ELSE orphans
  BY DEF ExpireRegistration
<1>3. x \in Client /\ x.open = TRUE /\ Sound(x, typed[c], account) /\ typed[c] \in Typed
  BY <1>1, ClientOf, ClientFields
<1> DEFINE r == IF cleared THEN NoRegistration ELSE x.registration
           k == [[x EXCEPT !.state = "CLOSING"] EXCEPT !.registration = r]
<1>4. client' = [client EXCEPT ![c] = k]
  <2>1. client \in [Slots -> Client]
    BY DEF ServerInv, Clients
  <2>2. QED
    BY <1>2, <2>1 DEF Client
<1>5. r \in {x.registration, NoRegistration} /\ r \in RegistrationAttempt
  BY <1>3, ClientFields, Nothing
<1>6. Is(k, TRUE, x.generation, "CLOSING", x.login, r, x.session)
  <2> DEFINE y == [x EXCEPT !.state = "CLOSING"]
  <2>1. Is(y, TRUE, x.generation, "CLOSING", x.login, x.registration, x.session)
    BY <1>3, WithState DEF ConnState
  <2>2. y \in Client
    BY <2>1 DEF Is
  <2> HIDE DEF y
  <2>3. Is([y EXCEPT !.registration = r], y.open, y.generation, y.state, y.login, r, y.session)
    BY <1>5, <2>2, WithRegistration
  <2>4. QED
    BY <2>1, <2>3 DEF Is, y
<1>7. cleared => r = NoRegistration
  OBVIOUS
<1>8. ~cleared => r = x.registration
  OBVIOUS
<1> HIDE DEF k, r
<1>9. k \in Client /\ k.login = x.login /\ k.registration = r /\ k.session = x.session
  BY <1>6 DEF Is
<1>10. u \in Accounts /\ x.session = None
  BY <1>1, Registering
<1>11. /\ Mindful /\ PendingIn(account') \subseteq PendingIn(account)
       /\ session' = session /\ OpenIn(session') \subseteq OpenIn(session)
       /\ Executed(o) => u \notin PendingIn(account')
  BY <1>1, <1>10, AbortMindful
<1>12. /\ MadeIn(session) \subseteq MadeIn(session') /\ KnownIn(account) \subseteq KnownIn(account')
       /\ StoreTypeOK /\ RowsStep
  BY <1>11, RowsTyped DEF Mindful
<1>13. Sound(x, typed[c], account')
  BY <1>3, <1>12, SoundStays
<1>14. Sound(k, typed[c], account')
  BY <1>3, <1>5, <1>6, <1>13, SoundClosing
<1>15. JobsStep(c, k, typed[c])
  BY <1>1, <1>5, <1>9, CalmAttempts
<1>16. orphans \subseteq orphans' /\ orphans' \subseteq Sessions \cup Accounts
  BY <1>2, <1>10 DEF ServerInv, Numbers
<1>17. Numbers'
  BY <1>1, <1>16, NumbersKept
<1>18. Passed(x.session, k.session, OpenIn(session), OpenIn(session'),
              MadeIn(session), MadeIn(session'), orphans')
  BY <1>9, <1>11, <1>12, PassedSame
<1>19. Passed(u, k.registration.user, PendingIn(account), PendingIn(account'),
              KnownIn(account), KnownIn(account'), orphans')
  <2>1. CASE cleared
    <3>1. u \notin PendingIn(account') \ orphans'
      BY <1>2, <1>11, <2>1
    <3>2. k.registration.user = None
      BY <1>7, <1>9, <2>1, Nothing
    <3>3. QED
      BY <1>11, <1>12, <3>1, <3>2, PassedLet
  <2>2. CASE ~cleared
    BY <1>8, <1>9, <1>11, <1>12, <2>2, PassedSame
  <2>3. QED
    BY <2>1, <2>2
<1>20. typed' = [typed EXCEPT ![c] = typed[c]]
  BY <1>1, TypedKept
<1>21. QED
  BY <1>3, <1>4, <1>9, <1>11, <1>14, <1>15, <1>16, <1>17, <1>18, <1>19, <1>20, SlotStep

(* The reply of a handler that keeps its attempts, or gives its login up,  *)
(* and closes the connection; the database may have changed.               *)
LEMMA RefusedStep ==
    ASSUME ServerInv, NEW c \in Slots, client[c].open = TRUE, NEW n \in Client,
           NEW l \in {client[c].login, NoLogin},
           NEW r \in {client[c].registration, NoRegistration},
           r = NoRegistration => client[c].registration.user = None,
           Is(n, TRUE, client[c].generation, client[c].state, l, r, client[c].session),
           Refuse(c, n), Mindful, jobs' \subseteq jobs, next_job' = next_job,
           orphans \subseteq orphans', orphans' \subseteq Sessions \cup Accounts,
           UNCHANGED <<daemon, typed, stops>>,
           NEW y, NEW z, y \in orphans' \/ OpenIn(session') \subseteq OpenIn(session),
           z \in orphans' \/ PendingIn(account') \subseteq PendingIn(account),
           OpenIn(session') \subseteq OpenIn(session) \cup {y},
           PendingIn(account') \subseteq PendingIn(account) \cup {z}
    PROVE  ServerInv'
<1> DEFINE x == client[c]
<1>1. x \in Client /\ Sound(x, typed[c], account) /\ typed[c] \in Typed
  BY ClientOf
<1>2. PICK k \in Client : /\ client' = [client EXCEPT ![c] = k]
                          /\ Is(k, TRUE, x.generation, "CLOSING", l, r, x.session)
  BY RefuseFacts DEF Is
<1>3. doomed' \in {doomed, c}
  BY RefuseFacts
<1>4. Numbers'
  BY <1>3, NumbersKept
<1>5. /\ MadeIn(session) \subseteq MadeIn(session') /\ KnownIn(account) \subseteq KnownIn(account')
      /\ StoreTypeOK /\ RowsStep
  BY RowsTyped DEF Mindful
<1>6. Sound(x, typed[c], account')
  BY <1>1, <1>5, SoundStays
<1>7. Sound(k, typed[c], account')
  BY <1>2, <1>6, SoundClosing
<1>8. k.login = l /\ k.registration = r /\ k.session = x.session
  BY <1>2 DEF Is
<1>9. k.registration.user = x.registration.user
  BY <1>8, Nothing
<1>10. JobsStep(c, k, typed[c])
  BY <1>8, CalmAttempts
<1>11. Passed(x.session, k.session, OpenIn(session), OpenIn(session'),
              MadeIn(session), MadeIn(session'), orphans')
  BY <1>5, <1>8, PassedLost, PassedSame
<1>12. Passed(x.registration.user, k.registration.user, PendingIn(account), PendingIn(account'),
              KnownIn(account), KnownIn(account'), orphans')
  BY <1>5, <1>9, PassedLost, PassedSame
<1>13. typed' = [typed EXCEPT ![c] = typed[c]]
  BY TypedKept
<1>14. QED
  BY <1>1, <1>2, <1>4, <1>7, <1>10, <1>11, <1>12, <1>13, SlotStep

(* A connection that answers, and comes to be in state s with the session  *)
(* e after its attempt is over.                                            *)
LEMMA GrantedStep ==
    ASSUME ServerInv, NEW c \in Slots, client[c].open = TRUE, client[c].session = None,
           NEW n \in Client, NEW s \in {"SESSION_BOUND", "HELLO_COMPLETE"},
           NEW e \in Sessions \cup {None}, e # None <=> s = "SESSION_BOUND",
           Is(n, TRUE, client[c].generation, s, NoLogin, NoRegistration, e),
           Reply(c, "frame", n), Mindful, jobs' \subseteq jobs, next_job' = next_job,
           UNCHANGED <<daemon, typed, stops, orphans>>,
           OpenIn(session') \subseteq OpenIn(session) \cup {e},
           e # None => e \notin MadeIn(session) /\ e \in MadeIn(session'),
           PendingIn(account') \subseteq PendingIn(account),
           client[c].registration.user \notin PendingIn(account')
    PROVE  ServerInv' /\ client'[c].session = e
<1> DEFINE x == client[c]
<1>1. x \in Client /\ typed[c] \in Typed /\ orphans \subseteq Sessions \cup Accounts
  BY ClientOf DEF ServerInv, Numbers
<1>2. PICK k \in Client : /\ client' = [client EXCEPT ![c] = k]
                          /\ Is(k, TRUE, x.generation, s, NoLogin, NoRegistration, e)
  BY ReplyFacts DEF Is
<1>3. doomed' \in {doomed, c}
  BY ReplyFacts
<1>4. Numbers'
  BY <1>1, <1>3, NumbersKept
<1>5. MadeIn(session) \subseteq MadeIn(session') /\ KnownIn(account) \subseteq KnownIn(account')
  BY DEF Mindful
<1>6. k.login = NoLogin /\ k.registration = NoRegistration /\ k.session = e /\ k.state = s
      /\ k.open = TRUE /\ k \in Client
  BY <1>2 DEF Is
<1>7. Sound(k, typed[c], account')
  BY <1>6, Nothing DEF Sound
<1>8. JobsStep(c, k, typed[c])
  BY <1>6, CalmAttempts
<1>9. Passed(x.session, k.session, OpenIn(session), OpenIn(session'),
             MadeIn(session), MadeIn(session'), orphans')
  <2>1. CASE e = None
    <3>1. None \notin OpenIn(session')
      BY Constants DEF OpenIn
    <3>2. OpenIn(session') \subseteq OpenIn(session)
      BY <2>1, <3>1
    <3>3. QED
      BY <1>5, <1>6, <2>1, <3>2, PassedSame
  <2>2. CASE e # None
    BY <1>5, <1>6, <2>2, NotHeld, PassedMade
  <2>3. QED
    BY <2>1, <2>2
<1>10. Passed(x.registration.user, k.registration.user, PendingIn(account), PendingIn(account'),
              KnownIn(account), KnownIn(account'), orphans')
  <2>1. k.registration.user = None
    BY <1>6, Nothing
  <2>2. QED
    BY <1>5, <2>1, PassedLet
<1>11. typed' = [typed EXCEPT ![c] = typed[c]]
  BY TypedKept
<1>12. orphans \subseteq orphans'
  OBVIOUS
<1>13. client'[c].session = e
  BY <1>2, <1>6 DEF ServerInv, Clients
<1>14. QED
  BY <1>1, <1>2, <1>13, <1>4, <1>7, <1>8, <1>9, <1>10, <1>11, <1>12, SlotStep

LEMMA AbortRequestStep ==
    ASSUME ServerInv, NEW c \in Slots, NEW o \in Outcome, AbortRequest(c, o)
    PROVE  ServerInv'
<1> DEFINE x == client[c]
           u == x.registration.user
           a == [x EXCEPT !.registration = NoRegistration]
           n == [a EXCEPT !.state = "HELLO_COMPLETE"]
<1>1. /\ x.open /\ DatabasePending(c) /\ AbortRegistration(u, o)
      /\ UNCHANGED <<daemon, jobs, next_job, typed, orphans, stops>>
  BY DEF AbortRequest, Receiving, Serving
<1>2. x \in Client /\ x.open = TRUE /\ orphans \subseteq Sessions \cup Accounts
  BY <1>1, ClientOf, ClientFields DEF ServerInv, Numbers
<1>3. u \in Accounts /\ x.session = None /\ x.login = NoLogin
  BY <1>1, Registering
<1>4. /\ Mindful /\ PendingIn(account') \subseteq PendingIn(account)
      /\ OpenIn(session') \subseteq OpenIn(session)
      /\ Executed(o) => u \notin PendingIn(account')
  BY <1>1, <1>3, AbortMindful
<1>5. CASE o = "ok" /\ Pending(u)
  <2>1. Reply(c, "frame", n)
    <3>1. Reply(c, "frame", [x EXCEPT !.registration = NoRegistration, !.state = "HELLO_COMPLETE"])
      BY <1>5 DEF AbortRequest
    <3>2. QED
      BY <3>1
  <2>2. Is(a, TRUE, x.generation, x.state, NoLogin, NoRegistration, None)
    BY <1>2, <1>3, WithRegistration, Nothing
  <2>3. a \in Client /\ "HELLO_COMPLETE" \in ConnState
    BY <2>2 DEF Is, ConnState
  <2> HIDE DEF a
  <2>4. Is(n, a.open, a.generation, "HELLO_COMPLETE", a.login, a.registration, a.session)
    BY <2>3, WithState
  <2>5. Is(n, TRUE, x.generation, "HELLO_COMPLETE", NoLogin, NoRegistration, None)
    BY <2>2, <2>4 DEF Is
  <2>6. n \in Client
    BY <2>5 DEF Is
  <2> HIDE DEF n
  <2>7. u \notin PendingIn(account')
    BY <1>4, <1>5 DEF Executed
  <2>8. QED
    BY <1>1, <1>2, <1>3, <1>4, <2>1, <2>5, <2>6, <2>7, GrantedStep
<1>6. CASE ~(o = "ok" /\ Pending(u))
  <2>1. Refuse(c, x)
    BY <1>6 DEF AbortRequest
  <2>2. Is(x, TRUE, x.generation, x.state, x.login, x.registration, x.session)
    BY <1>2, ClientFields
  <2>3. x.registration # NoRegistration
    BY <1>1, Registering
  <2>4. QED
    BY <1>1, <1>2, <1>4, <2>1, <2>2, <2>3, RefusedStep
<1>7. QED
  BY <1>5, <1>6

LEMMA CommitRequestStep ==
    ASSUME ServerInv, NEW c \in Slots, NEW s \in Sessions, NEW o \in Outcome,
           CommitRequest(c, s, o)
    PROVE  /\ ServerInv'
           /\ o = "ok" /\ Committable(client[c].registration.user, client[c].registration.version)
                 => client'[c].session = s
<1> DEFINE x == client[c]
           u == x.registration.user
           v == x.registration.version
           a == [x EXCEPT !.registration = NoRegistration]
           b == [a EXCEPT !.session = s]
           n == [b EXCEPT !.state = "SESSION_BOUND"]
<1>1. /\ x.open /\ DatabasePending(c) /\ CommitRegistration(u, v, s, o)
      /\ UNCHANGED <<daemon, jobs, next_job, typed, stops>>
      /\ orphans' = IF o = "lost" /\ Committable(u, v) THEN orphans \cup {s} ELSE orphans
  BY DEF CommitRequest, Receiving, Serving
<1>2. x \in Client /\ x.open = TRUE /\ orphans \subseteq Sessions \cup Accounts
  BY <1>1, ClientOf, ClientFields DEF ServerInv, Numbers
<1>3. u \in Accounts /\ v \in Nat /\ x.session = None /\ x.login = NoLogin
      /\ x.registration # NoRegistration
  BY <1>1, Registering
<1>4. /\ Mindful /\ PendingIn(account') \subseteq PendingIn(account)
      /\ Executed(o) /\ Committable(u, v) =>
            /\ session[s].state = "absent" /\ session' = Opened(u, s)
            /\ u \notin PendingIn(account')
      /\ ~(Executed(o) /\ Committable(u, v)) => session' = session
  BY <1>1, <1>3, CommitMindful
<1>5. OpenIn(session') \subseteq OpenIn(session) \cup {s}
  BY <1>3, <1>4, OpenedFacts
<1>6. CASE o = "ok" /\ Committable(u, v)
  <2>1. Reply(c, "frame", n)
    <3>1. Reply(c, "frame", [x EXCEPT !.registration = NoRegistration, !.session = s,
                                      !.state = "SESSION_BOUND"])
      BY <1>6 DEF CommitRequest
    <3>2. QED
      BY <3>1
  <2>2. Is(a, TRUE, x.generation, x.state, NoLogin, NoRegistration, None)
    BY <1>2, <1>3, WithRegistration, Nothing
  <2>3. a \in Client /\ "SESSION_BOUND" \in ConnState
    BY <2>2 DEF Is, ConnState
  <2> HIDE DEF a
  <2>4. Is(b, a.open, a.generation, a.state, a.login, a.registration, s)
    BY <2>3, WithSession
  <2>5. b \in Client
    BY <2>4 DEF Is
  <2> HIDE DEF b
  <2>6. Is(n, b.open, b.generation, "SESSION_BOUND", b.login, b.registration, b.session)
    BY <2>3, <2>5, WithState
  <2>7. Is(n, TRUE, x.generation, "SESSION_BOUND", NoLogin, NoRegistration, s)
    BY <2>2, <2>4, <2>6 DEF Is
  <2>8. n \in Client
    BY <2>7 DEF Is
  <2> HIDE DEF n
  <2>9. session[s].state = "absent" /\ session' = Opened(u, s) /\ u \notin PendingIn(account')
    BY <1>4, <1>6 DEF Executed
  <2>10. s \notin MadeIn(session) /\ s \in MadeIn(session') /\ s # None
    BY <1>3, <2>9, OpenedFacts, Constants DEF MadeIn
  <2>11. orphans' = orphans
    BY <1>1, <1>6
  <2>12. ServerInv' /\ client'[c].session = s
    BY <1>1, <1>2, <1>3, <1>4, <1>5, <2>1, <2>7, <2>8, <2>9, <2>10, <2>11, GrantedStep
  <2>13. QED
    BY <2>12
<1>7. CASE ~(o = "ok" /\ Committable(u, v))
  <2>1. Refuse(c, x)
    BY <1>7 DEF CommitRequest
  <2>2. Is(x, TRUE, x.generation, x.state, x.login, x.registration, x.session)
    BY <1>2, ClientFields
  <2>3. s \in orphans' \/ OpenIn(session') \subseteq OpenIn(session)
    BY <1>1, <1>4, <1>7 DEF Executed, Outcome
  <2>4. orphans \subseteq orphans' /\ orphans' \subseteq Sessions \cup Accounts
    BY <1>1, <1>2
  <2>5. ServerInv'
    BY <1>1, <1>2, <1>3, <1>4, <1>5, <2>1, <2>2, <2>3, <2>4, RefusedStep
  <2>6. QED
    BY <1>7, <2>5
<1>8. QED
  BY <1>6, <1>7

LEMMA SessionCloseStep ==
    ASSUME ServerInv, NEW c \in Slots, NEW o \in Outcome, SessionClose(c, o)
    PROVE  ServerInv'
<1> DEFINE x == client[c]
           e == x.session
           r == IF o = "ok" THEN None ELSE e
           a == [x EXCEPT !.state = "CLOSING"]
           k == [a EXCEPT !.session = r]
<1>1. /\ x.open /\ x.state = "SESSION_BOUND" /\ CloseTerminalSession(e, o) /\ doomed' = c
      /\ client' = [client EXCEPT ![c].state = "CLOSING",
                                  ![c].session = IF o = "ok" THEN None ELSE @]
      /\ UNCHANGED <<daemon, jobs, next_job, typed, orphans, stops>>
  BY DEF SessionClose, Receiving, Serving
<1>2. x \in Client /\ x.open = TRUE /\ Sound(x, typed[c], account) /\ typed[c] \in Typed
  BY <1>1, ClientOf, ClientFields
<1>3. client' = [client EXCEPT ![c] = k]
  <2>1. client \in [Slots -> Client]
    BY DEF ServerInv, Clients
  <2>2. QED
    BY <1>1, <2>1 DEF Client
<1>4. e \in Sessions
  BY <1>1, <1>2, ClientFields DEF Sound
<1>5. x.login = NoLogin /\ x.registration = NoRegistration
  BY <1>1, <1>2 DEF Sound
<1>6. r \in {e, None} /\ r \in Sessions \cup {None} /\ (o = "ok" => r = None)
      /\ (o # "ok" => r = e)
  BY <1>4
<1>7. Is(a, TRUE, x.generation, "CLOSING", NoLogin, NoRegistration, e)
  BY <1>2, <1>5, WithState DEF ConnState
<1>8. a \in Client
  BY <1>7 DEF Is
<1> HIDE DEF a, r
<1>9. Is(k, a.open, a.generation, a.state, a.login, a.registration, r)
  BY <1>6, <1>8, WithSession
<1>10. Is(k, TRUE, x.generation, "CLOSING", NoLogin, NoRegistration, r)
  BY <1>7, <1>9 DEF Is
<1> HIDE DEF k
<1>11. k \in Client /\ k.login = NoLogin /\ k.registration = NoRegistration /\ k.session = r
       /\ k.registration.user = x.registration.user
  BY <1>5, <1>10 DEF Is
<1>12. Sound(k, typed[c], account')
  BY <1>10, Nothing DEF Sound, Is
<1>13. /\ Mindful /\ PendingIn(account') \subseteq PendingIn(account)
       /\ OpenIn(session') \subseteq OpenIn(session)
       /\ Executed(o) => e \notin OpenIn(session')
  BY <1>1, <1>4, CloseMindful
<1>14. MadeIn(session) \subseteq MadeIn(session') /\ KnownIn(account) \subseteq KnownIn(account')
  BY <1>13 DEF Mindful
<1>15. Passed(e, k.session, OpenIn(session), OpenIn(session'),
              MadeIn(session), MadeIn(session'), orphans')
  <2>1. CASE o = "ok"
    BY <1>6, <1>11, <1>13, <1>14, <2>1, PassedLet DEF Executed
  <2>2. CASE o # "ok"
    BY <1>6, <1>11, <1>13, <1>14, <2>2, PassedSame
  <2>3. QED
    BY <2>1, <2>2
<1>16. Passed(x.registration.user, k.registration.user, PendingIn(account), PendingIn(account'),
              KnownIn(account), KnownIn(account'), orphans')
  BY <1>11, <1>13, <1>14, PassedSame
<1>17. JobsStep(c, k, typed[c])
  BY <1>1, <1>11, CalmAttempts
<1>18. orphans' = orphans /\ orphans \subseteq Sessions \cup Accounts
  BY <1>1 DEF ServerInv, Numbers
<1>19. Numbers'
  BY <1>1, <1>18, NumbersKept
<1>20. typed' = [typed EXCEPT ![c] = typed[c]]
  BY <1>1, TypedKept
<1>21. QED
  BY <1>2, <1>3, <1>11, <1>12, <1>13, <1>15, <1>16, <1>17, <1>18, <1>19, <1>20, SlotStep

-----------------------------------------------------------------------------
(* Completions that call the database. *)

(* A login that waits for job j and was not deferred. *)
LEMMA LoggingIn ==
    ASSUME ServerInv, NEW j \in jobs, MatchesLogin(j), ~client[j.slot].login.deferred
    PROVE  LET c == j.slot
               x == client[c]
               snap == x.login.snap
           IN  /\ c \in Slots /\ x \in Client /\ x.open = TRUE /\ x.login # NoLogin
               /\ x.registration = NoRegistration /\ x.session = None
               /\ Looked(snap, typed[c], account)
               /\ snap.user \in Accounts /\ snap.version \in Nat
               /\ snap.password \in Passwords \cup {None}
               /\ snap = [user |-> snap.user, version |-> snap.version,
                          password |-> snap.password]
               /\ j.password = typed[c].password /\ j.against = snap.password
<1> DEFINE c == j.slot
           x == client[c]
<1>1. c \in Slots /\ j.id \in Nat /\ j.id > 0 /\ Answers(j, x, typed[c])
  BY JobFacts
<1>2. x.open /\ j.kind = "verify" /\ x.login.job = j.id
  BY DEF MatchesLogin
<1> HIDE DEF c
<1>3. x \in Client /\ Sound(x, typed[c], account) /\ x.open = TRUE
  BY <1>1, <1>2, ClientOf, ClientFields
<1>4. x.login \in LoginAttempt
  BY <1>3, ClientFields
<1>5. x.login.deferred = FALSE
  BY <1>4, AttemptFields DEF c
<1>6. x.login # NoLogin
  BY <1>1, <1>2, Nothing
<1>7. /\ x.registration = NoRegistration /\ x.session = None
      /\ Looked(x.login.snap, typed[c], account)
  BY <1>3, <1>5, <1>6 DEF Sound
<1>8. x.login.snap.user \in Accounts
  BY <1>7 DEF Looked
<1>9. j.password = typed[c].password /\ j.against = x.login.snap.password
  BY <1>1, <1>2, <1>5 DEF Answers
<1>10. QED
  BY <1>1, <1>3, <1>4, <1>6, <1>7, <1>8, <1>9, AttemptFields DEF c

LEMMA WrongPasswordStep ==
    ASSUME ServerInv, NEW j \in jobs, NEW o \in Outcome, WrongPassword(j, o)
    PROVE  ServerInv'
<1> DEFINE c == j.slot
           x == client[c]
           snap == x.login.snap
           n == [x EXCEPT !.login = NoLogin]
<1>1. /\ MatchesLogin(j) /\ ~x.login.deferred /\ jobs' = jobs \ {j}
      /\ RecordPasswordFailure(snap.user, o) /\ Refuse(c, n)
      /\ UNCHANGED <<daemon, next_job, typed, orphans, stops>>
  BY DEF WrongPassword
<1>2. /\ c \in Slots /\ x \in Client /\ x.open = TRUE
      /\ snap.user \in Accounts /\ Looked(snap, typed[c], account)
  BY <1>1, LoggingIn
<1> HIDE DEF c
<1>3. Is(n, TRUE, x.generation, x.state, NoLogin, x.registration, x.session)
  BY <1>2, WithLogin, Nothing
<1>4. n \in Client
  BY <1>3 DEF Is
<1> HIDE DEF n
<1>5. account[snap.user].status \in {"active", "disabled"}
  BY <1>2 DEF Looked
<1>6. Mindful /\ PendingIn(account') \subseteq PendingIn(account) /\ session' = session
  BY <1>1, <1>2, <1>5, FailureMindful
<1>7. orphans' = orphans /\ orphans \subseteq Sessions \cup Accounts
  BY <1>1 DEF ServerInv, Numbers
<1>8. x.registration = NoRegistration => x.registration.user = None
  BY Nothing
<1>9. QED
  BY <1>1, <1>2, <1>3, <1>4, <1>6, <1>7, <1>8, RefusedStep

LEMMA RightPasswordStep ==
    ASSUME ServerInv, NEW j \in jobs, NEW s \in Sessions, NEW o \in Outcome,
           RightPassword(j, s, o)
    PROVE  /\ ServerInv'
           /\ o = "ok" /\ SessionVerdict(client[j.slot].login.snap) = "ok"
                 => client'[j.slot].session = s
<1> DEFINE c == j.slot
           x == client[c]
           snap == x.login.snap
           granted == SessionVerdict(snap) = "ok"
           a == [x EXCEPT !.login = NoLogin]
           b == [a EXCEPT !.session = s]
           n == [b EXCEPT !.state = "SESSION_BOUND"]
<1>1. /\ MatchesLogin(j) /\ ~x.login.deferred /\ jobs' = jobs \ {j}
      /\ CreatePasswordSession(snap, s, o)
      /\ orphans' = IF o = "lost" /\ granted THEN orphans \cup {s} ELSE orphans
      /\ UNCHANGED <<daemon, next_job, typed, stops>>
  BY DEF RightPassword
<1>r. IF o = "ok" /\ granted
      THEN Reply(c, "frame", [a EXCEPT !.session = s, !.state = "SESSION_BOUND"])
      ELSE Refuse(c, a)
  BY DEF RightPassword
<1>2. /\ c \in Slots /\ x \in Client /\ x.open = TRUE
      /\ x.registration = NoRegistration /\ x.session = None
      /\ snap.user \in Accounts /\ snap.version \in Nat
      /\ snap.password \in Passwords \cup {None}
      /\ snap = [user |-> snap.user, version |-> snap.version, password |-> snap.password]
  BY <1>1, LoggingIn
<1>3. /\ Mindful /\ PendingIn(account') \subseteq PendingIn(account)
      /\ Executed(o) /\ granted =>
            session[s].state = "absent" /\ session' = Opened(snap.user, s)
      /\ ~(Executed(o) /\ granted) => session' = session
  BY <1>1, <1>2, LoginMindful
<1>4. OpenIn(session') \subseteq OpenIn(session) \cup {s}
  BY <1>2, <1>3, OpenedFacts
<1>5. orphans \subseteq Sessions \cup Accounts
  BY DEF ServerInv, Numbers
<1> HIDE DEF c, granted
<1>6. Is(a, TRUE, x.generation, x.state, NoLogin, NoRegistration, None)
  BY <1>2, WithLogin, Nothing
<1>7. a \in Client /\ "SESSION_BOUND" \in ConnState
  BY <1>6 DEF Is, ConnState
<1>8. CASE o = "ok" /\ granted
  <2>1. Reply(c, "frame", n)
    BY <1>r, <1>8
  <2> HIDE DEF a
  <2>2. Is(b, a.open, a.generation, a.state, a.login, a.registration, s)
    BY <1>7, WithSession
  <2>3. b \in Client
    BY <2>2 DEF Is
  <2> HIDE DEF b
  <2>4. Is(n, b.open, b.generation, "SESSION_BOUND", b.login, b.registration, b.session)
    BY <1>7, <2>3, WithState
  <2>5. Is(n, TRUE, x.generation, "SESSION_BOUND", NoLogin, NoRegistration, s)
    BY <1>6, <2>2, <2>4 DEF Is
  <2>6. n \in Client
    BY <2>5 DEF Is
  <2> HIDE DEF n
  <2>7. session[s].state = "absent" /\ session' = Opened(snap.user, s)
    BY <1>3, <1>8 DEF Executed
  <2>8. s \notin MadeIn(session) /\ s \in MadeIn(session') /\ s # None
    BY <1>2, <2>7, OpenedFacts, Constants DEF MadeIn
  <2>9. orphans' = orphans
    BY <1>1, <1>8
  <2>10. x.registration.user \notin PendingIn(account')
    BY <1>2, Nothing, Constants DEF PendingIn
  <2>11. ServerInv' /\ client'[c].session = s
    BY <1>1, <1>2, <1>3, <1>4, <2>1, <2>5, <2>6, <2>8, <2>9, <2>10, GrantedStep
  <2>12. QED
    BY <2>11 DEF c
<1>9. CASE ~(o = "ok" /\ granted)
  <2>1. Refuse(c, a)
    BY <1>r, <1>9
  <2> HIDE DEF a
  <2>2. Is(a, TRUE, x.generation, x.state, NoLogin, x.registration, x.session)
    BY <1>2, <1>6
  <2>3. s \in orphans' \/ OpenIn(session') \subseteq OpenIn(session)
    BY <1>1, <1>3, <1>9 DEF Executed, Outcome
  <2>4. orphans \subseteq orphans' /\ orphans' \subseteq Sessions \cup Accounts
    BY <1>1, <1>5
  <2>5. x.registration = NoRegistration => x.registration.user = None
    BY Nothing
  <2>6. ServerInv'
    BY <1>1, <1>2, <1>3, <1>4, <1>7, <2>1, <2>2, <2>3, <2>4, <2>5, RefusedStep
  <2>7. QED
    BY <1>9, <2>6 DEF c, granted
<1>10. QED
  BY <1>8, <1>9

(* A registration that waits for job j. *)
LEMMA Hashing ==
    ASSUME ServerInv, NEW j \in jobs, MatchesRegistration(j)
    PROVE  LET c == j.slot
               x == client[c]
           IN  /\ c \in Slots /\ x \in Client /\ x.open = TRUE
               /\ x.registration # NoRegistration /\ x.login = NoLogin /\ x.session = None
               /\ x.registration.user = None /\ x.registration.active = TRUE
               /\ x.registration.login = typed[c].login /\ x.registration.login \in Logins
               /\ x.state \in {"REGISTERING", "CLOSING"}
               /\ j.password = typed[c].password /\ j.password \in Passwords
<1> DEFINE c == j.slot
           x == client[c]
<1>1. c \in Slots /\ j.id \in Nat /\ j.id > 0 /\ Answers(j, x, typed[c]) /\ j.password \in Passwords
  BY JobFacts
<1>2. x.open /\ j.kind = "generate" /\ x.registration.job = j.id
  BY DEF MatchesRegistration
<1> HIDE DEF c
<1>3. x \in Client /\ Sound(x, typed[c], account) /\ x.open = TRUE /\ typed[c] \in Typed
  BY <1>1, <1>2, ClientOf, ClientFields
<1>4. x.registration # NoRegistration
  BY <1>1, <1>2, Nothing
<1>5. /\ x.session = None /\ x.login = NoLogin /\ x.registration.active = TRUE
      /\ x.registration.login = typed[c].login /\ typed[c].login # None
      /\ x.state \in {"REGISTERING", "CLOSING"}
  BY <1>3, <1>4 DEF Sound
<1>6. x.registration.user = None
  BY <1>1, <1>2, <1>3 DEF Sound
<1>7. typed[c].login \in Logins
  BY <1>3, <1>5 DEF Typed
<1>8. j.password = typed[c].password
  BY <1>1, <1>2 DEF Answers
<1>9. QED
  BY <1>1, <1>3, <1>4, <1>5, <1>6, <1>7, <1>8 DEF c

(* The attempt of a Begin that was answered. *)
LEMMA BegunFacts ==
    ASSUME NEW r \in RegistrationAttempt, NEW u \in Accounts
    PROVE  LET n == [r EXCEPT !.job = 0, !.user = u, !.version = 1]
           IN  /\ n \in RegistrationAttempt /\ n.job = 0 /\ n.user = u
               /\ n.active = r.active /\ n.login = r.login
BY DEF RegistrationAttempt

LEMMA HashedStep ==
    ASSUME ServerInv, NEW j \in jobs, NEW u \in Accounts, NEW o \in Outcome,
           RegistrationHashed(j, u, o)
    PROVE  ServerInv'
<1> DEFINE c == j.slot
           x == client[c]
           l == x.registration.login
           begun == BeginVerdict(l) = "ok"
           r == [x.registration EXCEPT !.job = 0, !.user = u, !.version = 1]
           n == [x EXCEPT !.registration = r]
           a == [x EXCEPT !.registration = NoRegistration]
<1>1. /\ MatchesRegistration(j) /\ jobs' = jobs \ {j}
      /\ BeginRegistration(l, j.password, u, o)
      /\ orphans' = IF o = "lost" /\ begun THEN orphans \cup {u} ELSE orphans
      /\ UNCHANGED <<daemon, next_job, typed, stops>>
  BY DEF RegistrationHashed
<1>2. /\ c \in Slots /\ x \in Client /\ x.open = TRUE
      /\ x.registration # NoRegistration /\ x.login = NoLogin /\ x.session = None
      /\ x.registration.user = None /\ x.registration.active = TRUE
      /\ l = typed[c].login /\ l \in Logins /\ x.state \in {"REGISTERING", "CLOSING"}
      /\ j.password = typed[c].password /\ j.password \in Passwords
  BY <1>1, Hashing
<1>3. IF o = "ok" /\ begun THEN Reply(c, "frame", n) ELSE Refuse(c, a)
  <2>1. IF o = "ok" /\ begun
        THEN Reply(c, "frame", [x EXCEPT !.registration.job = 0, !.registration.user = u,
                                         !.registration.version = 1])
        ELSE Refuse(c, a)
    BY DEF RegistrationHashed
  <2>2. [x EXCEPT !.registration.job = 0, !.registration.user = u, !.registration.version = 1] = n
    BY <1>2 DEF Client, RegistrationAttempt
  <2>3. QED
    BY <2>1, <2>2
<1>4. /\ Mindful /\ session' = session
      /\ Executed(o) /\ begun =>
            /\ PendingIn(account') \subseteq PendingIn(account) \cup {u}
            /\ u \notin KnownIn(account) /\ u \in KnownIn(account')
            /\ account'[u].status = "pending" /\ account'[u].login = l
            /\ account'[u].password = j.password
      /\ ~(Executed(o) /\ begun) => account' = account
  BY <1>1, <1>2, BeginMindful
<1>5. orphans \subseteq Sessions \cup Accounts
  BY DEF ServerInv, Numbers
<1>6. OpenIn(session') \subseteq OpenIn(session)
      /\ PendingIn(account') \subseteq PendingIn(account) \cup {u}
  BY <1>4
<1> HIDE DEF begun, c, l
<1>7. CASE o = "ok" /\ begun
  <2>1. /\ r \in RegistrationAttempt /\ r.job = 0 /\ r.user = u
        /\ r.active = TRUE /\ r.login = typed[c].login
    <3>1. x.registration \in RegistrationAttempt
      BY <1>2, ClientFields
    <3>2. QED
      BY <1>2, <3>1, BegunFacts DEF l
  <2> HIDE DEF r
  <2>2. Is(n, TRUE, x.generation, x.state, NoLogin, r, None)
    BY <1>2, <2>1, WithRegistration
  <2>3. n \in Client
    BY <2>2 DEF Is
  <2>4. Reply(c, "frame", n)
    BY <1>3, <1>7
  <2> HIDE DEF n
  <2>5. PICK k \in Client : /\ client' = [client EXCEPT ![c] = k]
                            /\ Is(k, TRUE, x.generation, x.state, NoLogin, r, None)
    BY <1>2, <2>2, <2>3, <2>4, ReplyFacts DEF Is
  <2>6. doomed' \in {doomed, c}
    BY <1>2, <2>3, <2>4, ReplyFacts
  <2>7. orphans' = orphans
    BY <1>1, <1>7
  <2>8. Numbers'
    BY <1>1, <1>2, <1>5, <2>6, <2>7, NumbersKept
  <2>9. /\ u \notin KnownIn(account) /\ u \in KnownIn(account')
        /\ account'[u].status = "pending" /\ account'[u].login = l
        /\ account'[u].password = j.password
    BY <1>4, <1>7 DEF Executed
  <2>10. Applied(u, typed[c], account')
    BY <1>2, <2>9 DEF Applied
  <2>11. typed[c].login # None
    BY <1>2, Constants
  <2>12. k.login = NoLogin /\ k.registration = r /\ k.session = None /\ k.state = x.state
         /\ k.open = TRUE
    BY <2>5 DEF Is
  <2>13. Sound(k, typed[c], account')
    BY <1>2, <2>1, <2>10, <2>11, <2>12 DEF Sound
  <2>14. Calmer(c, k, typed[c])
    BY <1>1, <2>1, <2>12 DEF Calmer
  <2>15. JobsStep(c, k, typed[c])
    BY <1>2, <2>14, CalmerJobs
  <2>16. MadeIn(session) \subseteq MadeIn(session') /\ KnownIn(account) \subseteq KnownIn(account')
    BY <1>4 DEF Mindful
  <2>17. Passed(x.session, k.session, OpenIn(session), OpenIn(session'),
                MadeIn(session), MadeIn(session'), orphans')
    BY <1>2, <1>6, <2>12, <2>16, PassedSame
  <2>18. Passed(x.registration.user, k.registration.user, PendingIn(account),
                PendingIn(account'), KnownIn(account), KnownIn(account'), orphans')
    BY <1>2, <1>6, <2>1, <2>9, <2>12, <2>16, NotHeld, PassedMade
  <2>19. typed' = [typed EXCEPT ![c] = typed[c]] /\ typed[c] \in Typed
    BY <1>1, <1>2, TypedKept
  <2>20. orphans \subseteq orphans'
    BY <2>7
  <2>21. QED
    BY <1>2, <1>4, <2>5, <2>8, <2>13, <2>15, <2>17, <2>18, <2>19, <2>20, SlotStep
<1>8. CASE ~(o = "ok" /\ begun)
  <2>1. Is(a, TRUE, x.generation, x.state, x.login, NoRegistration, x.session)
    BY <1>2, WithRegistration, Nothing
  <2>2. a \in Client
    BY <2>1 DEF Is
  <2>3. Refuse(c, a)
    BY <1>3, <1>8
  <2> HIDE DEF a
  <2>4. u \in orphans' \/ PendingIn(account') \subseteq PendingIn(account)
    BY <1>1, <1>4, <1>8 DEF Executed, Outcome
  <2>5. orphans \subseteq orphans' /\ orphans' \subseteq Sessions \cup Accounts
    BY <1>1, <1>5
  <2>6. QED
    BY <1>1, <1>2, <1>4, <1>6, <2>1, <2>2, <2>3, <2>4, <2>5, RefusedStep
<1>9. QED
  BY <1>7, <1>8

-----------------------------------------------------------------------------
(* Requests that hand a job to the pool. *)

NewJob(c, kind, p, against) ==
    [id |-> next_job, slot |-> c, generation |-> client[c].generation,
     kind |-> kind, password |-> p, against |-> against]

LEMMA NewJobFacts ==
    ASSUME ServerInv, NEW c \in Slots, NEW kind \in {"verify", "generate"},
           NEW p \in Passwords, NEW against \in Passwords \cup {None}
    PROVE  LET j == NewJob(c, kind, p, against)
           IN  /\ j \in Job /\ j.id = next_job /\ j.slot = c /\ j.kind = kind
               /\ j.password = p /\ j.against = against
<1>1. next_job \in Nat /\ client[c].generation \in Nat
  BY ClientOf, ClientFields DEF ServerInv, Jobs
<1>2. QED
  BY <1>1 DEF NewJob, Job

(* Only the new job has the number that the attempt waits for. *)
LEMMA SubmitJobs ==
    ASSUME ServerInv, NEW c \in Slots, NEW kind \in {"verify", "generate"},
           NEW p \in Passwords, NEW against \in Passwords \cup {None},
           Submit(c, kind, p, against), NEW k, NEW t, t.password = p,
           k.login.job \in {0, next_job}, k.registration.job \in {0, next_job},
           kind = "generate" => k.login.job = 0,
           k.login.job = next_job /\ k.login.deferred = FALSE => k.login.snap.password = against
    PROVE  JobsStep(c, k, t)
<1> DEFINE n == NewJob(c, kind, p, against)
<1>1. /\ jobs \subseteq Job /\ next_job \in Nat \ {0} /\ Numbered(jobs, next_job)
  BY DEF ServerInv, Jobs
<1>2. jobs' = jobs \cup {n} /\ next_job' = next_job + 1
  BY DEF Submit, NewJob
<1>3. /\ n \in Job /\ n.id = next_job /\ n.slot = c /\ n.kind = kind
      /\ n.password = p /\ n.against = against
  BY NewJobFacts
<1> HIDE DEF n
<1>4. \A j \in jobs : j.id \in Nat /\ j.id > 0 /\ j.id < next_job
  BY <1>1 DEF Numbered, Job
<1>5. Numbered(jobs', next_job')
  BY <1>1, <1>2, <1>3, <1>4 DEF Numbered
<1>6. \A j \in jobs : j.id \notin {0, next_job}
  BY <1>1, <1>4
<1>7. \A j \in jobs : Answers(j, k, t)
  BY <1>6 DEF Answers
<1>8. Answers(n, k, t)
  BY <1>1, <1>3 DEF Answers
<1>9. jobs' \subseteq Job /\ next_job' \in Nat \ {0}
  BY <1>1, <1>2, <1>3
<1>10. QED
  BY <1>2, <1>3, <1>5, <1>7, <1>8, <1>9 DEF JobsStep

(* A connection that waits for its first request holds nothing. *)
LEMMA Waiting ==
    ASSUME ServerInv, NEW c \in Slots, Receiving(c), client[c].state = "HELLO_COMPLETE"
    PROVE  /\ client[c] \in Client /\ client[c].open = TRUE
           /\ client[c].login = NoLogin /\ client[c].registration = NoRegistration
           /\ client[c].session = None
BY ClientOf, ClientFields DEF Sound, Receiving, Serving

(* The request is answered by the state of the connection k. *)
LEMMA RequestStep ==
    ASSUME ServerInv, NEW c \in Slots, Receiving(c), client[c].state = "HELLO_COMPLETE",
           NEW k \in Client, NEW t \in Typed, client' = [client EXCEPT ![c] = k],
           typed' = [typed EXCEPT ![c] = t], Numbers', Sound(k, t, account'), JobsStep(c, k, t),
           orphans' = orphans, account' = account, session' = session,
           link' \in BOOLEAN, faults' \in Nat,
           k.session = None, k.registration.user = None
    PROVE  ServerInv'
<1>1. client[c].session = None /\ client[c].registration.user = None
  BY Waiting, Nothing
<1>2. /\ Mindful /\ OpenIn(session') \subseteq OpenIn(session)
      /\ PendingIn(account') \subseteq PendingIn(account)
  BY Unharmed
<1>3. QED
  BY <1>1, <1>2, KeepStep

LEMMA RefusedRequest ==
    ASSUME ServerInv, NEW c \in Slots, Receiving(c), client[c].state = "HELLO_COMPLETE",
           NEW t \in Typed, typed' = [typed EXCEPT ![c] = t], Refuse(c, client[c]),
           UNCHANGED <<daemon, jobs, next_job, orphans, stops>>,
           account' = account, session' = session, link' \in BOOLEAN, faults' \in Nat
    PROVE  ServerInv'
<1> DEFINE x == client[c]
<1>1. /\ x \in Client /\ x.open = TRUE /\ x.login = NoLogin
      /\ x.registration = NoRegistration /\ x.session = None
  BY Waiting
<1>2. PICK k \in Client : /\ client' = [client EXCEPT ![c] = k]
                          /\ Is(k, TRUE, x.generation, "CLOSING", NoLogin, NoRegistration, None)
  BY <1>1, RefuseFacts DEF Is
<1>3. doomed' \in {doomed, c}
  BY <1>1, RefuseFacts
<1>4. Numbers'
  BY <1>3, NumbersKept DEF ServerInv, Numbers
<1>5. k.login = NoLogin /\ k.registration = NoRegistration /\ k.session = None
      /\ k.registration.user = None
  BY <1>2, Nothing DEF Is
<1>6. x.generation \in Nat /\ "CLOSING" \in ConnState \ {"SESSION_BOUND"}
  BY <1>1, ClientFields DEF ConnState
<1>7. Sound(k, t, account')
  BY <1>2, <1>6, SoundIdle
<1>8. JobsStep(c, k, t)
  BY <1>5, CalmAttempts
<1>9. QED
  BY <1>2, <1>4, <1>5, <1>7, <1>8, RequestStep

LEMMA TypedRequest ==
    ASSUME NEW l \in Logins, NEW p \in Passwords
    PROVE  LET t == [login |-> l, password |-> p]
           IN  t \in Typed /\ t.login = l /\ t.password = p /\ t.login # None
BY Constants DEF Typed

LEMMA StartedFacts ==
    ASSUME NEW i \in Nat, NEW l \in Logins
    PROVE  LET r == [NoRegistration EXCEPT !.active = TRUE, !.job = i, !.login = l]
           IN  /\ r \in RegistrationAttempt /\ r.job = i /\ r.user = None
               /\ r.active = TRUE /\ r.login = l
BY DEF NoRegistration, RegistrationAttempt

LEMMA RegistrationRequestStep ==
    ASSUME ServerInv, NEW c \in Slots, NEW l \in Logins, NEW p \in Passwords,
           RegistrationRequest(c, l, p)
    PROVE  ServerInv'
<1> DEFINE x == client[c]
           t == [login |-> l, password |-> p]
           r == [NoRegistration EXCEPT !.active = TRUE, !.job = next_job, !.login = l]
           a == [x EXCEPT !.state = "REGISTERING"]
           k == [a EXCEPT !.registration = r]
<1>1. /\ Receiving(c) /\ x.state = "HELLO_COMPLETE" /\ typed' = [typed EXCEPT ![c] = t]
      /\ UNCHANGED <<storeVars, daemon, orphans, stops>>
  BY DEF RegistrationRequest
<1>2. t \in Typed /\ t.login = l /\ t.password = p /\ t.login # None
  BY TypedRequest
<1>3. account' = account /\ session' = session /\ link' \in BOOLEAN /\ faults' \in Nat
  BY <1>1, SameStore
<1>4. CASE ~SubmitOk
  <2>1. Refuse(c, x) /\ UNCHANGED <<jobs, next_job>>
    BY <1>4 DEF RegistrationRequest
  <2> HIDE DEF t
  <2>2. QED
    BY <1>1, <1>2, <1>3, <2>1, RefusedRequest
<1>5. CASE SubmitOk
  <2>1. /\ Submit(c, "generate", p, None) /\ doomed' = doomed
        /\ client' = [client EXCEPT ![c].state = "REGISTERING", ![c].registration = r]
    BY <1>5 DEF RegistrationRequest
  <2>2. client' = [client EXCEPT ![c] = k]
    <3>1. client \in [Slots -> Client]
      BY DEF ServerInv, Clients
    <3>2. QED
      BY <2>1, <3>1 DEF Client
  <2>3. next_job \in Nat
    BY DEF ServerInv, Jobs
  <2>4. /\ r \in RegistrationAttempt /\ r.job = next_job /\ r.user = None
        /\ r.active = TRUE /\ r.login = l
    BY <2>3, StartedFacts
  <2> HIDE DEF r, t
  <2>5. /\ x \in Client /\ x.open = TRUE /\ x.login = NoLogin /\ x.session = None
    BY <1>1, Waiting
  <2>6. Is(a, TRUE, x.generation, "REGISTERING", NoLogin, x.registration, None)
    BY <2>5, WithState DEF ConnState
  <2>7. a \in Client
    BY <2>6 DEF Is
  <2> HIDE DEF a
  <2>8. Is(k, a.open, a.generation, a.state, a.login, r, a.session)
    BY <2>4, <2>7, WithRegistration
  <2> HIDE DEF k
  <2>9. /\ k \in Client /\ k.open = TRUE /\ k.state = "REGISTERING" /\ k.login = NoLogin
        /\ k.registration = r /\ k.session = None
    BY <2>6, <2>8 DEF Is
  <2>10. Sound(k, t, account')
    BY <1>2, <2>4, <2>9 DEF Sound
  <2>11. JobsStep(c, k, t)
    <3>1. k.login.job = 0 /\ k.registration.job = next_job /\ next_job # 0
      BY <2>4, <2>9, Nothing DEF ServerInv, Jobs
    <3>2. QED
      BY <1>2, <2>1, <3>1, SubmitJobs
  <2>12. Numbers'
    BY <1>1, <2>1 DEF ServerInv, Numbers
  <2>13. QED
    BY <1>1, <1>2, <1>3, <2>2, <2>4, <2>9, <2>10, <2>11, <2>12, RequestStep
<1>6. QED
  BY <1>4, <1>5

LEMMA PasswordRequestStep ==
    ASSUME ServerInv, NEW c \in Slots, NEW l \in Logins, NEW p \in Passwords, NEW o \in Outcome,
           PasswordRequest(c, l, p, o)
    PROVE  ServerInv'
<1> DEFINE x == client[c]
           t == [login |-> l, password |-> p]
           rows == LookupRows(l)
           known == Cardinality(rows) = 1
           u == CHOOSE r \in rows : TRUE
           throttled == known /\ account[u].status = "active" /\ account[u].throttled
           available == known /\ account[u].status = "active" /\ ~account[u].throttled
           hash == IF available THEN account[u].password ELSE None
           snap == IF available THEN Snapshot(u) ELSE NoSnapshot
           m == [job |-> next_job, deferred |-> ~available, snap |-> snap]
           a == [x EXCEPT !.state = "AUTHENTICATING"]
           k == [a EXCEPT !.login = m]
<1>1. /\ Receiving(c) /\ x.state = "HELLO_COMPLETE" /\ typed' = [typed EXCEPT ![c] = t]
      /\ ReadOnlyCall(o) /\ UNCHANGED <<daemon, orphans, stops>>
  BY DEF PasswordRequest
<1>2. IF o # "ok" \/ throttled \/ ~SubmitOk
      THEN Refuse(c, x) /\ UNCHANGED <<jobs, next_job>>
      ELSE /\ Submit(c, "verify", p, hash)
           /\ client' = [client EXCEPT ![c].state = "AUTHENTICATING", ![c].login = m]
           /\ doomed' = doomed
  BY DEF PasswordRequest
<1>3. t \in Typed /\ t.login = l /\ t.password = p
  BY TypedRequest
<1>4. account' = account /\ session' = session /\ link' \in BOOLEAN /\ faults' \in Nat
  BY <1>1, RowsTyped, AnswerType DEF ReadOnlyCall
<1>5. available => /\ u \in Accounts /\ account[u].status = "active" /\ account[u].login = l
  <2>1. ASSUME available PROVE rows # {}
    <3>1. Cardinality({}) = 0
      BY FS_EmptySet
    <3>2. QED
      BY <2>1, <3>1
  <2>2. ASSUME available PROVE u \in rows
    BY <2>1, <2>2
  <2>3. QED
    BY <2>2 DEF LookupRows
<1>6. /\ snap \in [user : Accounts \cup {None}, version : Nat, password : Passwords \cup {None}]
      /\ snap.password = hash /\ hash \in Passwords \cup {None}
      /\ available => snap.user = u
  <2>1. CASE available
    <3>1. account[u] \in Row
      BY <1>5, <2>1, RowsTyped
    <3>2. account[u].version \in Nat /\ account[u].password \in Passwords \cup {None}
      BY <3>1 DEF Row
    <3>3. QED
      BY <1>5, <2>1, <3>2 DEF Snapshot
  <2>2. CASE ~available
    BY <2>2 DEF NoSnapshot
  <2>3. QED
    BY <2>1, <2>2
<1> HIDE DEF available, u, hash, snap
<1>7. next_job \in Nat /\ next_job # 0
  BY DEF ServerInv, Jobs
<1>8. /\ m \in LoginAttempt /\ m.job = next_job /\ m.snap = snap
      /\ m.deferred = FALSE => available
  BY <1>6, <1>7 DEF LoginAttempt
<1> HIDE DEF m, t, throttled
<1>9. CASE o # "ok" \/ throttled \/ ~SubmitOk
  <2>1. Refuse(c, x) /\ UNCHANGED <<jobs, next_job>>
    BY <1>2, <1>9
  <2>2. QED
    BY <1>1, <1>3, <1>4, <2>1, RefusedRequest
<1>10. CASE ~(o # "ok" \/ throttled \/ ~SubmitOk)
  <2>1. /\ Submit(c, "verify", p, hash) /\ doomed' = doomed
        /\ client' = [client EXCEPT ![c].state = "AUTHENTICATING", ![c].login = m]
    BY <1>2, <1>10
  <2>2. client' = [client EXCEPT ![c] = k]
    <3>1. client \in [Slots -> Client]
      BY DEF ServerInv, Clients
    <3>2. QED
      BY <2>1, <3>1 DEF Client
  <2>3. /\ x \in Client /\ x.open = TRUE /\ x.registration = NoRegistration /\ x.session = None
    BY <1>1, Waiting
  <2>4. Is(a, TRUE, x.generation, "AUTHENTICATING", x.login, NoRegistration, None)
    BY <2>3, WithState DEF ConnState
  <2>5. a \in Client
    BY <2>4 DEF Is
  <2> HIDE DEF a
  <2>6. Is(k, a.open, a.generation, a.state, m, a.registration, a.session)
    BY <1>8, <2>5, WithLogin
  <2> HIDE DEF k
  <2>7. /\ k \in Client /\ k.open = TRUE /\ k.state = "AUTHENTICATING" /\ k.login = m
        /\ k.registration = NoRegistration /\ k.session = None
    BY <2>4, <2>6 DEF Is
  <2>8. k.login.deferred = FALSE => Looked(k.login.snap, t, account')
    BY <1>3, <1>4, <1>5, <1>6, <1>8, <2>7 DEF Looked
  <2>9. Sound(k, t, account')
    BY <1>7, <1>8, <2>7, <2>8, Nothing DEF Sound
  <2>10. JobsStep(c, k, t)
    <3>1. k.login.job = next_job /\ k.registration.job = 0 /\ k.login.snap.password = hash
      BY <1>6, <1>8, <2>7, Nothing
    <3>2. QED
      BY <1>3, <1>6, <2>1, <3>1, SubmitJobs
  <2>11. Numbers'
    BY <1>1, <2>1 DEF ServerInv, Numbers
  <2>12. k.registration.user = None
    BY <2>7, Nothing
  <2>13. QED
    BY <1>1, <1>3, <1>4, <2>2, <2>7, <2>9, <2>10, <2>11, <2>12, RequestStep
<1>11. QED
  BY <1>9, <1>10

-----------------------------------------------------------------------------
(* Steps of the daemon and of the world. *)

(* The slots and the jobs stay as they are. *)
LEMMA StillStep ==
    ASSUME ServerInv, UNCHANGED <<client, typed, jobs, next_job, orphans>>, Numbers', Mindful,
           OpenIn(session') \subseteq OpenIn(session),
           PendingIn(account') \subseteq PendingIn(account)
    PROVE  ServerInv'
<1>1. PICK c \in Slots : TRUE
  BY ServerAssumption DEF ServerAssumption
<1> DEFINE k == client[c]
           t == typed[c]
<1>2. k \in Client /\ Sound(k, t, account) /\ t \in Typed /\ client = [client EXCEPT ![c] = k]
      /\ typed' = [typed EXCEPT ![c] = t]
  BY <1>1, ClientOf, TypedKept
<1>3. StoreTypeOK /\ RowsStep
  BY RowsTyped DEF Mindful
<1>4. Sound(k, t, account')
  BY <1>2, <1>3, SoundStays
<1>5. JobsStep(c, k, t)
  BY <1>1, CalmAttempts
<1>6. k.session = client[c].session /\ k.registration.user = client[c].registration.user
      /\ client' = [client EXCEPT ![c] = k]
  BY <1>2
<1> HIDE DEF k, t
<1>7. QED
  BY <1>1, <1>2, <1>4, <1>5, <1>6, KeepStep

LEMMA LaunchStep ==
    ASSUME ServerInv, Launch \/ Signalled
    PROVE  ServerInv'
<1>1. UNCHANGED <<client, jobs, next_job, doomed, typed, orphans>>
  BY Zenon DEF Launch, Signalled
<1>2. daemon' \in {"starting", "stopping"} /\ stops' \in {stops, stops + 1}
  BY DEF Launch, Signalled
<1>3. Numbers'
  BY <1>1, <1>2 DEF ServerInv, Numbers
<1>4. account' = account /\ session' = session /\ faults' = faults
  BY Zenon DEF Launch, Signalled, Connect, storeVars
<1>5. link' = TRUE \/ link' = link
  BY Zenon DEF Launch, Signalled, Connect, storeVars
<1>6. link' \in BOOLEAN /\ faults' \in Nat
  BY <1>4, <1>5, RowsTyped
<1>7. QED
  BY <1>1, <1>3, <1>4, <1>6, Unharmed, StillStep

LEMMA HealthStep ==
    ASSUME ServerInv, NEW o \in Outcome, Startup(o) \/ HealthCheck(o)
    PROVE  ServerInv'
<1>1. ExpireRegistrations(o) /\ daemon' \in {"running", "stopping"}
      /\ UNCHANGED <<client, jobs, next_job, doomed, typed, orphans, stops>>
  BY DEF Startup, HealthCheck
<1>2. Numbers'
  BY <1>1 DEF ServerInv, Numbers
<1>3. /\ Mindful /\ PendingIn(account') \subseteq PendingIn(account) /\ session' = session
  BY <1>1, ExpireMindful
<1>4. QED
  BY <1>1, <1>2, <1>3, StillStep

LEMMA OutsideStep ==
    ASSUME ServerInv, Outside
    PROVE  ServerInv'
<1>1. World /\ UNCHANGED <<daemon, client, jobs, next_job, doomed, typed, orphans, stops>>
  BY DEF Outside, serverVars
<1>2. Numbers'
  BY <1>1 DEF ServerInv, Numbers
<1>3. /\ Mindful /\ PendingIn(account') \subseteq PendingIn(account) /\ session' = session
  BY <1>1, WorldMindful
<1>4. QED
  BY <1>1, <1>2, <1>3, StillStep

(* Nobody holds anything after a process has ended. *)
LEMMA GoneStep ==
    ASSUME ServerInv, Gone, stops' \in {stops, stops + 1}, orphans \subseteq orphans',
           orphans' \subseteq Sessions \cup Accounts,
           OpenIn(session) \subseteq orphans', PendingIn(account) \subseteq orphans'
    PROVE  ServerInv'
<1>1. /\ daemon' = "down" /\ client' = [c \in Slots |-> Free(0)] /\ jobs' = {} /\ doomed' = 0
      /\ typed' = [c \in Slots |-> NothingTyped] /\ link' = FALSE
      /\ account' = account /\ session' = session /\ faults' = faults /\ next_job' = next_job
  BY DEF Gone, NothingTyped
<1>2. Numbers'
  BY <1>1 DEF ServerInv, Numbers
<1>3. link' \in BOOLEAN /\ faults' \in Nat
  BY <1>1, RowsTyped
<1>4. StoreInv' /\ Calm(account')
  BY <1>1, <1>3, Unharmed DEF Mindful
<1>5. /\ Is(Free(0), FALSE, 0, "CONNECTED", NoLogin, NoRegistration, None)
      /\ NothingTyped \in Typed
  BY FreeFacts DEF NothingTyped, Typed
<1>6. "CONNECTED" \in ConnState \ {"SESSION_BOUND"}
  BY DEF ConnState
<1>7. Sound(Free(0), NothingTyped, account')
  BY <1>5, <1>6, SoundIdle
<1>8. Free(0) \in Client /\ Free(0).session = None /\ Free(0).registration.user = None
  BY <1>5, Nothing DEF Is
<1>9. Clients(client', typed', account')
  BY <1>1, <1>5, <1>7, <1>8 DEF Clients
<1>10. Jobs(jobs', next_job', client', typed')
  BY <1>1 DEF ServerInv, Jobs, Numbered
<1>11. Held(SessionOf(client'), OpenIn(session'), MadeIn(session'), orphans')
  <2>1. \A c \in Slots : SessionOf(client')[c] = None
    BY <1>1, <1>8 DEF SessionOf
  <2>2. OpenIn(session') \ orphans' = {}
    BY <1>1
  <2>3. QED
    BY <2>1, <2>2 DEF Held
<1>12. Held(UserOf(client'), PendingIn(account'), KnownIn(account'), orphans')
  <2>1. \A c \in Slots : UserOf(client')[c] = None
    BY <1>1, <1>8 DEF UserOf
  <2>2. PendingIn(account') \ orphans' = {}
    BY <1>1
  <2>3. QED
    BY <2>1, <2>2 DEF Held
<1>13. QED
  BY <1>2, <1>4, <1>9, <1>10, <1>11, <1>12 DEF ServerInv, Holdings

LEMMA CrashStep ==
    ASSUME ServerInv, Crash
    PROVE  ServerInv'
<1>1. /\ Gone /\ stops' = stops + 1
      /\ orphans' = orphans \cup OpenIn(session) \cup PendingIn(account)
  BY DEF Crash, OpenIn, PendingIn, Pending
<1>2. orphans \subseteq Sessions \cup Accounts
  BY DEF ServerInv, Numbers
<1>3. OpenIn(session) \subseteq Sessions /\ PendingIn(account) \subseteq Accounts
  BY DEF OpenIn, PendingIn
<1>4. orphans' \subseteq Sessions \cup Accounts
  BY <1>1, <1>2, <1>3
<1>5. QED
  BY <1>1, <1>4, GoneStep

(* Cleanup has released every slot, so nothing is left to lose. *)
LEMMA ExitStep ==
    ASSUME ServerInv, Exit
    PROVE  ServerInv'
<1>1. Gone /\ orphans' = orphans /\ stops' = stops /\ Live = {}
  BY DEF Exit
<1>2. orphans \subseteq Sessions \cup Accounts
  BY DEF ServerInv, Numbers
<1>3. ASSUME NEW c \in Slots
      PROVE  client[c].session = None /\ client[c].registration.user = None
  <2>1. ~client[c].open
    BY <1>1 DEF Live
  <2>2. client[c].open = FALSE /\ client[c].generation \in Nat
        /\ client[c] = Free(client[c].generation)
    BY <2>1, ClientOf, ClientFields DEF Sound
  <2> DEFINE g == client[c].generation
  <2>3. Is(Free(g), FALSE, g, "CONNECTED", NoLogin, NoRegistration, None)
    BY <2>2, FreeFacts
  <2>4. QED
    BY <2>2, <2>3, Nothing DEF Is
<1>4. OpenIn(session) \subseteq orphans
  <2>1. \A c \in Slots : SessionOf(client)[c] = None
    BY <1>3 DEF SessionOf
  <2>2. QED
    BY <2>1, NotHeld DEF ServerInv, Holdings, Held
<1>5. PendingIn(account) \subseteq orphans
  <2>1. \A c \in Slots : UserOf(client)[c] = None
    BY <1>3 DEF UserOf
  <2>2. QED
    BY <2>1, NotHeld DEF ServerInv, Holdings, Held
<1>6. QED
  BY <1>1, <1>2, <1>4, <1>5, GoneStep

-----------------------------------------------------------------------------
LEMMA ServerInit == Init => ServerInv
<1> SUFFICES ASSUME Init PROVE ServerInv
  OBVIOUS
<1>1. /\ StoreInit /\ daemon = "down" /\ client = [c \in Slots |-> Free(0)] /\ jobs = {}
      /\ next_job = 1 /\ doomed = 0 /\ typed = [c \in Slots |-> NothingTyped]
      /\ orphans = {} /\ stops = 0
  BY DEF Init, NothingTyped
<1>2. StoreInv
  BY <1>1, InitEstablishes
<1>3. \A u \in Accounts : account[u].status # "pending"
  <2>1. PICK name \in [Existing -> Logins], word \in [Existing -> Passwords] :
           account = [u \in Accounts |->
                        IF u \in Existing
                        THEN NewRow("active", name[u], word[u], "none")
                        ELSE NewRow("absent", None, None, "none")]
    BY <1>1 DEF StoreInit
  <2>2. ASSUME NEW s, NEW l, NEW p, NEW a PROVE NewRow(s, l, p, a).status = s
    BY DEF NewRow
  <2>3. QED
    BY <2>1, <2>2
<1>4. \A s \in Sessions : session[s].state = "absent"
  BY <1>1 DEF StoreInit, NoSession
<1>5. Calm(account) /\ OpenIn(session) = {} /\ PendingIn(account) = {}
  BY <1>3, <1>4 DEF Calm, OpenIn, PendingIn
<1>6. Numbers
  BY <1>1 DEF Numbers
<1>7. /\ Is(Free(0), FALSE, 0, "CONNECTED", NoLogin, NoRegistration, None)
      /\ NothingTyped \in Typed
  BY FreeFacts DEF NothingTyped, Typed
<1>8. "CONNECTED" \in ConnState \ {"SESSION_BOUND"}
  BY DEF ConnState
<1>9. Sound(Free(0), NothingTyped, account)
  BY <1>7, <1>8, SoundIdle
<1>10. Free(0) \in Client /\ Free(0).session = None /\ Free(0).registration.user = None
  BY <1>7, Nothing DEF Is
<1>11. Clients(client, typed, account)
  BY <1>1, <1>7, <1>9, <1>10 DEF Clients
<1>12. Jobs(jobs, next_job, client, typed)
  BY <1>1 DEF Jobs, Numbered
<1>13. Holdings(client, account, session, orphans)
  <2>1. \A c \in Slots : SessionOf(client)[c] = None /\ UserOf(client)[c] = None
    BY <1>1, <1>10 DEF SessionOf, UserOf
  <2>2. QED
    BY <1>5, <2>1 DEF Holdings, Held
<1>14. QED
  BY <1>2, <1>5, <1>6, <1>11, <1>12, <1>13 DEF ServerInv

-----------------------------------------------------------------------------
(* Every step. *)

LEMMA ServerStep == ServerInv /\ [Next]_vars => ServerInv'
<1> SUFFICES ASSUME ServerInv, [Next]_vars PROVE ServerInv'
  OBVIOUS
<1>1. CASE Daemon
  BY <1>1, LaunchStep, ExitStep, CrashStep, HealthStep DEF Daemon
<1>2. ASSUME NEW c \in Slots, Connection(c) PROVE ServerInv'
  BY <1>2, AcceptStep, DisconnectStep, ResetStep, ExpireStepOf DEF Connection
<1>3. ASSUME NEW c \in Slots, Frame(c) PROVE ServerInv'
  BY <1>3, HelloStep, InvalidStep, RegistrationRequestStep, PasswordRequestStep,
     AbortRequestStep, SessionCloseStep, CommitRequestStep DEF Frame
<1>4. ASSUME NEW j \in jobs, Completion(j) PROVE ServerInv'
  BY <1>4, DropStep, LoginRejectedStep, RegistrationFailedStep, WrongPasswordStep,
     RightPasswordStep, HashedStep DEF Completion
<1>5. CASE Outside
  BY <1>5, OutsideStep
<1>6. CASE UNCHANGED vars
  <2>1. UNCHANGED <<client, typed, jobs, next_job, orphans>> /\ Numbers'
        /\ account' = account /\ session' = session /\ link' = link /\ faults' = faults
    BY <1>6 DEF vars, serverVars, storeVars, ServerInv, Numbers
  <2>2. QED
    BY <2>1, RowsTyped, Unharmed, StillStep
<1>7. QED
  BY <1>1, <1>2, <1>3, <1>4, <1>5, <1>6 DEF Next

(* From the first start on, through every crash and restart, the daemon    *)
(* and the database agree about who holds what.                            *)
THEOREM ServerInvariant == Spec => []ServerInv
  BY ServerInit, ServerStep, PTL DEF Spec

(* authd_server.c keeps the types of its slots, jobs and attempts; a       *)
(* login, a registration and an open session exclude each other, and a     *)
(* slot that client_reset has released holds none.                         *)
THEOREM ServerTypes == Spec => []TypeOK
<1>1. ServerInv => TypeOK
  <2> SUFFICES ASSUME ServerInv PROVE TypeOK
    OBVIOUS
  <2>1. /\ StoreTypeOK /\ Numbers /\ client \in [Slots -> Client] /\ jobs \subseteq Job
        /\ typed \in [Slots -> Typed] /\ next_job \in Nat
    BY DEF ServerInv, StoreInv, Clients, Jobs
  <2>2. ASSUME NEW c \in Slots
        PROVE  /\ ~client[c].open => client[c] = Free(client[c].generation)
               /\ ~client[c].registration.active => client[c].registration = NoRegistration
               /\ client[c].session # None =>
                     client[c].login = NoLogin /\ client[c].registration = NoRegistration
               /\ client[c].login # NoLogin => client[c].registration = NoRegistration
    <3>1. Sound(client[c], typed[c], account) /\ client[c].open \in BOOLEAN
          /\ client[c].registration \in RegistrationAttempt
      BY ClientOf, ClientFields
    <3>2. QED
      BY <3>1 DEF Sound
  <2>3. QED
    BY <2>1, <2>2 DEF TypeOK, Numbers, Typed
<1>2. QED
  BY <1>1, ServerInvariant, PTL

LEMMA LiveIfHolding ==
    ASSUME ServerInv, NEW c \in Slots,
           client[c].session # None \/ client[c].registration.user # None
    PROVE  c \in Live
<1>1. Sound(client[c], typed[c], account) /\ client[c].open \in BOOLEAN
      /\ client[c].generation \in Nat
  BY ClientOf, ClientFields
<1>2. CASE client[c].open = FALSE
  <2> DEFINE g == client[c].generation
  <2>1. Is(Free(g), FALSE, g, "CONNECTED", NoLogin, NoRegistration, None)
    BY <1>1, FreeFacts
  <2>2. client[c] = Free(g)
    BY <1>1, <1>2 DEF Sound
  <2>3. QED
    BY <2>1, <2>2, Nothing DEF Is
<1>3. QED
  BY <1>1, <1>2 DEF Live

(* Every open row of bbs_terminal_sessions is held by exactly one live     *)
(* socket, unless a crash or a failed call took it out of the daemon's     *)
(* sight, for any number of clients, crashes and database failures.        *)
THEOREM SessionsStayBound == Spec => []SessionsBound
<1>1. ServerInv => SessionsBound
  <2> SUFFICES ASSUME ServerInv PROVE SessionsBound
    OBVIOUS
  <2>1. Held(SessionOf(client), OpenIn(session), MadeIn(session), orphans)
    BY DEF ServerInv, Holdings
  <2>2. \A c \in Slots : SessionOf(client)[c] = client[c].session
    BY DEF SessionOf
  <2>3. ASSUME NEW s \in Sessions \ orphans, session[s].state = "open"
        PROVE  \E c \in Live : client[c].session = s
    <3>1. PICK c \in Slots : client[c].session = s
      BY <2>1, <2>2, <2>3 DEF Held, OpenIn
    <3>2. QED
      BY <3>1, LiveIfHolding, Constants
  <2>4. ASSUME NEW c \in Live, NEW d \in Live, client[c].session = client[d].session,
               client[c].session # None
        PROVE  c = d
    BY <2>1, <2>2, <2>4 DEF Held, Live
  <2>5. QED
    BY <2>3, <2>4 DEF SessionsBound
<1>2. QED
  BY <1>1, ServerInvariant, PTL

(* Every pending identity that the daemon has not lost sight of is bound   *)
(* to exactly one live socket, whose reset will abort it.                  *)
THEOREM AttemptsStayBound == Spec => []AttemptsBound
<1>1. ServerInv => AttemptsBound
  <2> SUFFICES ASSUME ServerInv PROVE AttemptsBound
    OBVIOUS
  <2>1. Held(UserOf(client), PendingIn(account), KnownIn(account), orphans)
    BY DEF ServerInv, Holdings
  <2>2. \A c \in Slots : UserOf(client)[c] = client[c].registration.user
    BY DEF UserOf
  <2>3. ASSUME NEW u \in Accounts \ orphans, Pending(u)
        PROVE  \E c \in Live : client[c].registration.user = u
    <3>1. PICK c \in Slots : client[c].registration.user = u
      BY <2>1, <2>2, <2>3 DEF Held, PendingIn, Pending
    <3>2. QED
      BY <3>1, LiveIfHolding, Constants
  <2>4. ASSUME NEW c \in Live, NEW d \in Live, DatabasePending(c),
               client[c].registration.user = client[d].registration.user
        PROVE  c = d
    BY <2>1, <2>2, <2>4 DEF Held, Live, DatabasePending
  <2>5. QED
    BY <2>3, <2>4 DEF AttemptsBound
<1>2. QED
  BY <1>1, ServerInvariant, PTL

(* The daemon, with its crashes, restarts and stale completions, keeps     *)
(* what the database promises its callers: the tables agree, a login name  *)
(* finds one row, sessions belong to members and the number of pending     *)
(* registrations is bounded.                                               *)
THEOREM DaemonKeepsTables ==
    Spec => [](Coherent /\ LookupUnambiguous /\ SessionsHaveMembers /\ PendingBounded)
<1>1. StoreInv => Coherent /\ LookupUnambiguous /\ SessionsHaveMembers /\ PendingBounded
  BY DEF StoreInv, NamesUnique, LookupUnambiguous, LookupRows
<1>2. ServerInv => StoreInv
  BY DEF ServerInv
<1>3. QED
  BY <1>1, <1>2, ServerInvariant, PTL

-----------------------------------------------------------------------------
(* Who gets a session. *)

Earned ==
    \A s \in Sessions :
        session[s].state = "absent" /\ session'[s].state = "open" =>
            LET u == session'[s].user
            IN  /\ account'[u].status = "active" /\ account'[u].role
                /\ ~account[u].throttled
                /\ \E c \in Live :
                      /\ typed[c].login = account[u].login
                      /\ typed[c].password = account[u].password
                      /\ client'[c].session = s \/ s \in orphans'

LEMMA NothingOpened ==
    ASSUME OpenIn(session') \subseteq OpenIn(session)
    PROVE  Earned
BY DEF Earned, OpenIn

(* One session e is opened, for slot c and account u. *)
LEMMA OneOpened ==
    ASSUME ServerInv, NEW e \in Sessions, NEW u \in Accounts, NEW c \in Live,
           session' = Opened(u, e),
           account'[u].status = "active", account'[u].role, ~account[u].throttled,
           typed[c].login = account[u].login, typed[c].password = account[u].password,
           client'[c].session = e \/ e \in orphans'
    PROVE  Earned
<1>1. /\ session'[e].user = u
      /\ \A s \in Sessions : s # e => session'[s] = session[s]
  BY OpenedFacts
<1>2. QED
  BY <1>1 DEF Earned

LEMMA CommitEarned ==
    ASSUME ServerInv, NEW c \in Slots, NEW s \in Sessions, NEW o \in Outcome,
           CommitRequest(c, s, o)
    PROVE  Earned
<1> DEFINE u == client[c].registration.user
           v == client[c].registration.version
<1>1. /\ client[c].open /\ DatabasePending(c) /\ CommitRegistration(u, v, s, o)
      /\ orphans' = IF o = "lost" /\ Committable(u, v) THEN orphans \cup {s} ELSE orphans
  BY DEF CommitRequest, Receiving, Serving
<1>2. u \in Accounts /\ v \in Nat /\ Applied(u, typed[c], account)
  BY <1>1, Registering
<1>3. o = "ok" /\ Committable(u, v) => client'[c].session = s
  BY CommitRequestStep
<1> HIDE DEF u, v
<1>4. /\ Executed(o) /\ Committable(u, v) =>
            /\ session' = Opened(u, s)
            /\ account'[u].status = "active" /\ account'[u].role = TRUE
      /\ ~(Executed(o) /\ Committable(u, v)) => session' = session
  BY <1>1, <1>2, CommitMindful
<1>5. CASE Executed(o) /\ Committable(u, v)
  <2>1. account[u].status = "pending"
    BY <1>5 DEF Committable, Pending
  <2>2. account[u].throttled = FALSE
    BY <1>2, <2>1, RowsTyped
  <2>3. typed[c].login = account[u].login /\ typed[c].password = account[u].password
    BY <1>2, <2>1 DEF Applied
  <2>4. client'[c].session = s \/ s \in orphans'
    BY <1>1, <1>3, <1>5 DEF Executed, Outcome
  <2>5. c \in Live
    BY <1>1 DEF Live
  <2>6. QED
    BY <1>2, <1>4, <1>5, <2>2, <2>3, <2>4, <2>5, OneOpened
<1>6. CASE ~(Executed(o) /\ Committable(u, v))
  BY <1>4, <1>6, NothingOpened
<1>7. QED
  BY <1>5, <1>6

LEMMA LoginEarned ==
    ASSUME ServerInv, NEW j \in jobs, NEW s \in Sessions, NEW o \in Outcome,
           RightPassword(j, s, o)
    PROVE  Earned
<1> DEFINE c == j.slot
           snap == client[c].login.snap
           u == snap.user
           granted == SessionVerdict(snap) = "ok"
<1>1. /\ MatchesLogin(j) /\ ~client[c].login.deferred /\ j.password = j.against
      /\ CreatePasswordSession(snap, s, o)
      /\ orphans' = IF o = "lost" /\ granted THEN orphans \cup {s} ELSE orphans
  BY DEF RightPassword
<1>2. /\ c \in Slots /\ client[c].open = TRUE /\ Looked(snap, typed[c], account)
      /\ u \in Accounts /\ snap.version \in Nat /\ snap.password \in Passwords \cup {None}
      /\ snap = [user |-> u, version |-> snap.version, password |-> snap.password]
      /\ j.password = typed[c].password /\ j.against = snap.password
  BY <1>1, LoggingIn
<1>3. o = "ok" /\ granted => client'[c].session = s
  BY RightPasswordStep
<1>4. /\ Executed(o) /\ granted => session' = Opened(u, s)
      /\ ~(Executed(o) /\ granted) => session' = session
      /\ account'[u].status = account[u].status /\ account'[u].role = account[u].role
  BY <1>1, <1>2, LoginMindful
<1>5. CASE Executed(o) /\ granted
  <2>1. Current(snap) /\ account[u].role
    BY <1>5 DEF SessionVerdict
  <2>2. account[u].status = "active" /\ ~account[u].throttled /\ account[u].password = snap.password
    BY <2>1 DEF Current
  <2>3. typed[c].login = account[u].login /\ typed[c].password = account[u].password
    BY <1>1, <1>2, <2>2 DEF Looked
  <2>4. client'[c].session = s \/ s \in orphans'
    BY <1>1, <1>3, <1>5 DEF Executed, Outcome
  <2>5. c \in Live
    BY <1>2 DEF Live
  <2> HIDE DEF c, u, snap, granted
  <2>6. QED
    BY <1>2, <1>4, <1>5, <2>1, <2>2, <2>3, <2>4, <2>5, OneOpened
<1>6. CASE ~(Executed(o) /\ granted)
  BY <1>4, <1>6, NothingOpened
<1>7. QED
  BY <1>5, <1>6

LEMMA NextEarned ==
    ASSUME ServerInv, [Next]_vars
    PROVE  Earned
<1>1. ASSUME session' = session PROVE Earned
  BY <1>1, NothingOpened
<1>2. CASE Daemon
  <2>1. session' = session
    BY <1>2, Zenon DEF Daemon, Launch, Connect, Signalled, storeVars, Exit, Crash, Gone,
       Startup, HealthCheck, ExpireRegistrations
  <2>2. QED
    BY <1>1, <2>1
<1>3. ASSUME NEW c \in Slots, Connection(c) PROVE Earned
  <2>1. ASSUME NEW o \in Outcome, ClientReset(c, o) PROVE Earned
    BY <2>1, ReleaseStep, NothingOpened DEF ClientReset
  <2>2. ASSUME NEW o \in Outcome, ExpireRegistration(c, o) PROVE session' = session
    BY <2>2, Zenon DEF ExpireRegistration, AbortRegistration
  <2>3. Accept(c) \/ Disconnect(c) \/ WriteClient(c) \/ ExpireHello(c) => session' = session
    BY Zenon DEF Accept, Disconnect, WriteClient, ExpireHello, storeVars
  <2>4. QED
    BY <1>1, <1>3, <2>1, <2>2, <2>3 DEF Connection
<1>4. ASSUME NEW c \in Slots, Frame(c) PROVE Earned
  <2>1. ASSUME NEW o \in Outcome, SessionClose(c, o) PROVE Earned
    <3>1. CloseTerminalSession(client[c].session, o) /\ client[c].state = "SESSION_BOUND"
      BY <2>1 DEF SessionClose
    <3>2. client[c].session \in Sessions
      BY <3>1, ClientOf, ClientFields DEF Sound
    <3>3. QED
      BY <3>1, <3>2, CloseMindful, NothingOpened
  <2>2. \/ Hello(c) \/ InvalidFrame(c) \/ RejectedFrame(c) \/ SecondPasswordRequest(c)
        \/ SessionContext(c) \/ \E l \in Logins, p \in Passwords : RegistrationRequest(c, l, p)
        => session' = session
    BY Zenon DEF Hello, InvalidFrame, RejectedFrame, SecondPasswordRequest, SessionContext,
       RegistrationRequest, storeVars
  <2>3. ASSUME NEW o \in Outcome, NEW l \in Logins, NEW p \in Passwords,
               PasswordRequest(c, l, p, o)
        PROVE  session' = session
    BY <2>3, Zenon DEF PasswordRequest, ReadOnlyCall
  <2>4. ASSUME NEW o \in Outcome, AbortRequest(c, o)
        PROVE  session' = session
    BY <2>4, Zenon DEF AbortRequest, AbortRegistration
  <2>5. QED
    BY <1>1, <1>4, <2>1, <2>2, <2>3, <2>4, CommitEarned DEF Frame
<1>5. ASSUME NEW j \in jobs, Completion(j) PROVE Earned
  <2>1. DropCompletion(j) \/ LoginRejected(j) \/ RegistrationFailed(j) => session' = session
    BY Zenon DEF DropCompletion, LoginRejected, RegistrationFailed, storeVars
  <2>2. ASSUME NEW o \in Outcome, WrongPassword(j, o) PROVE session' = session
    BY <2>2, Zenon DEF WrongPassword, RecordPasswordFailure
  <2>3. ASSUME NEW o \in Outcome, NEW u \in Accounts, RegistrationHashed(j, u, o)
        PROVE  session' = session
    BY <2>3, Zenon DEF RegistrationHashed, BeginRegistration
  <2>4. QED
    BY <1>1, <1>5, <2>1, <2>2, <2>3, LoginEarned DEF Completion
<1>6. CASE Outside
  BY <1>1, <1>6, WorldMindful DEF Outside
<1>7. CASE UNCHANGED vars
  BY <1>1, <1>7 DEF vars, storeVars
<1>8. QED
  BY <1>2, <1>3, <1>4, <1>5, <1>6, <1>7 DEF Next

(* create_password_session and commit_registration open a session only for *)
(* the peer that typed the account's present name and password, while the  *)
(* account is active, not throttled and allowed to log in: no stale        *)
(* completion, reused slot or change made meanwhile lets another one in.   *)
THEOREM SessionsAreEarned == Spec => SessionEarned
<1>1. ServerInv /\ [Next]_vars => [Earned]_vars
  BY NextEarned
<1>2. QED
  BY <1>1, ServerInvariant, PTL DEF Spec, SessionEarned, Earned
=============================================================================
