----------------------- MODULE RegistrationCoordinator -----------------------
(***************************************************************************)
(* Registration across two stores: PostgreSQL behind fortytwo-authd, and   *)
(* the legacy users.data file with one directory per user                  *)
(* (fortytwo-auth/src/registration_coordinator.c and                       *)
(* legacy_userdb_provision.c).                                             *)
(*                                                                         *)
(* Several fortytwo-login processes run the coordinator at once.  The      *)
(* server side is the account lifecycle that AccountStore implements: a    *)
(* registration is an identity, its first session bears its name.  Every   *)
(* local system call may fail, a process may be killed and the host may    *)
(* lose power between any two steps: "file" and "dir" are what processes   *)
(* see, "diskFile" and "diskDir" what a power loss leaves.  mbnewusr       *)
(* appends to users.data without any lock.                                 *)
(*                                                                         *)
(* Paths, owners, modes and inode identities only make a step fail, and    *)
(* any step may fail here.  A record is its owner and whether all its      *)
(* bytes are there; the Maildir below a user directory is "whole".         *)
(***************************************************************************)
EXTENDS Naturals, Sequences

CONSTANTS
    Regs,           \* registration ids, one per coordinator process
    Names,          \* legacy names
    Nobody,         \* no process, no owner, no name
    Other,          \* the owner of a record that mbnewusr wrote
    MaxFaults,      \* bound: failing local calls
    MaxStops,       \* bound: killed processes and power losses
    MaxOthers       \* bound: records appended by mbnewusr

ASSUME CoordinatorAssumption ==
    /\ Nobody \notin Regs \cup Names /\ Other \notin Regs
    /\ MaxFaults \in Nat /\ MaxStops \in Nat /\ MaxOthers \in Nat

VARIABLES
    standing, visit,    \* PostgreSQL: identities and sessions
    name,               \* the legacy name the server chose
    pc,                 \* where each coordinator is
    ctx,                \* its legacy_userdb_prepared_registration_t
    report,             \* the status it returned
    lock,               \* who holds users-data.lock
    file, dir,          \* users.data and the user directories
    diskFile, diskDir,  \* the same, as they are on the disk
    unsynced,           \* history: truncations whose fdatasync failed
    faults, stops, others

serverVars == <<standing, visit, name>>
storage == <<file, dir, diskFile, diskDir>>
bounds == <<faults, stops, others>>
vars == <<serverVars, pc, ctx, report, lock, storage, unsynced, bounds>>

Lifecycle == INSTANCE AccountLifecycle WITH Accounts <- Regs, Sessions <- Regs

Record(r, whole) == [owner |-> r, whole |-> whole]

Tree(place, marker, whole) == [place |-> place, marker |-> marker, whole |-> whole]

NoTree == Tree("none", "none", FALSE)

(* size is original_size in records; bytes is how much of the own record   *)
(* was written; marked is require_marker, found is record_present, retry   *)
(* the second rollback.                                                    *)
NoContext == [size |-> 0, bytes |-> "none", marked |-> FALSE, prepared |-> FALSE,
              found |-> FALSE, retry |-> FALSE]

Report == {"none", "begin_failed", "prepare_failed", "rollback_failed", "abort_failed",
           "commit_failed", "outcome_unknown", "ok", "ok_marker_pending"}

Working == {"lock", "stage", "append", "sync", "publish", "confirm", "commit",
            "reopen", "finalize", "check", "hide", "truncate", "remove", "relock",
            "abort"}

Init ==
    /\ standing = [r \in Regs |-> "none"]
    /\ visit = [r \in Regs |-> Lifecycle!Unopened]
    /\ name = [r \in Regs |-> Nobody]
    /\ pc = [r \in Regs |-> "idle"]
    /\ ctx = [r \in Regs |-> NoContext]
    /\ report = [r \in Regs |-> "none"]
    /\ lock = Nobody
    /\ file = <<>> /\ diskFile = <<>>
    /\ dir = [r \in Regs |-> NoTree] /\ diskDir = [r \in Regs |-> NoTree]
    /\ unsynced = {}
    /\ faults = 0 /\ stops = 0 /\ others = 0

-----------------------------------------------------------------------------
(* Steps. *)

Goto(r, l) == pc' = [pc EXCEPT ![r] = l]

Return(r, status) ==
    /\ Goto(r, "done")
    /\ report' = [report EXCEPT ![r] = status]

(* A local call succeeds or fails. *)
Works == UNCHANGED bounds
Fails == faults < MaxFaults /\ faults' = faults + 1 /\ UNCHANGED <<stops, others>>

SetDir(r, t) == dir' = [dir EXCEPT ![r] = t]
SyncDir(r) == diskDir' = [diskDir EXCEPT ![r] = dir'[r]]

(* users.data ends with the own record, complete up to what was written. *)
OwnTail(r) ==
    /\ Len(file) = ctx[r].size + 1
    /\ file[Len(file)] = Record(r, ctx[r].bytes = "whole")

(* Another user directory has the own legacy name. *)
TargetTaken(r) ==
    \E q \in Regs \ {r} : dir[q].place = "final" /\ name[q] = name[r]

-----------------------------------------------------------------------------
(* FTAP Begin.  The legacy name is unique among the bound identities. *)
Begin(r, n) ==
    /\ pc[r] = "idle"
    /\ \A q \in Regs : standing[q] \in {"applicant", "member"} => name[q] # n
    /\ Lifecycle!Apply(r)
    /\ name' = [name EXCEPT ![r] = n]
    /\ \/ Goto(r, "lock") /\ UNCHANGED report
       \/ Return(r, "begin_failed")          \* the answer was lost
    /\ UNCHANGED <<ctx, lock, storage, unsynced, bounds>>

BeginFails(r) ==
    /\ pc[r] = "idle"
    /\ Return(r, "begin_failed")
    /\ UNCHANGED <<serverVars, ctx, lock, storage, unsynced, bounds>>

-----------------------------------------------------------------------------
(* legacy_userdb_prepare_registration. *)

(* What the validation of users.data and ensure_target_names_absent ask. *)
Acceptable(r) ==
    /\ \A i \in 1 .. Len(file) :
          /\ file[i].whole
          /\ file[i].owner \in Regs => name[file[i].owner] # name[r]
    /\ ~TargetTaken(r) /\ dir[r] = NoTree

(* open_runtime_lock does not wait; nothing was made yet when it fails. *)
Lock(r) ==
    /\ pc[r] = "lock"
    /\ \/ /\ Works
          /\ IF lock = Nobody /\ Acceptable(r)
             THEN /\ lock' = r
                  /\ ctx' = [ctx EXCEPT ![r].size = Len(file)]
                  /\ Goto(r, "stage")
             ELSE Goto(r, "abort") /\ UNCHANGED <<lock, ctx>>
       \/ Fails /\ Goto(r, "abort") /\ UNCHANGED <<lock, ctx>>
    /\ UNCHANGED <<serverVars, report, storage, unsynced>>

(* create_staging_tree and sync_users_directory. *)
Stage(r) ==
    /\ pc[r] = "stage"
    /\ \/ /\ Works
          /\ SetDir(r, Tree("staging", "prepared", TRUE)) /\ SyncDir(r)
          /\ ctx' = [ctx EXCEPT ![r].marked = TRUE]
          /\ Goto(r, "append") /\ UNCHANGED lock
       \/ /\ Fails
          /\ Goto(r, "abort") /\ lock' = Nobody
          /\ UNCHANGED <<ctx, dir, diskDir>>
       \/ /\ Fails
          /\ \E marked \in BOOLEAN :
                /\ SetDir(r, IF marked THEN Tree("staging", "prepared", TRUE)
                                       ELSE Tree("staging", "none", FALSE))
                /\ ctx' = [ctx EXCEPT ![r].marked = marked]
          /\ Goto(r, "check") /\ UNCHANGED <<lock, diskDir>>
    /\ UNCHANGED <<serverVars, report, file, diskFile, unsynced>>

(* write_record_at writes at original_size, whatever is there by now. *)
AppendRecord(r) ==
    LET put(w) == SubSeq(file, 1, ctx[r].size) \o <<Record(r, w)>>
                      \o SubSeq(file, ctx[r].size + 2, Len(file))
    IN  /\ pc[r] = "append"
        /\ \/ /\ Works
              /\ file' = put(TRUE)
              /\ ctx' = [ctx EXCEPT ![r].bytes = "whole"]
              /\ Goto(r, "sync")
           \/ /\ Fails
              /\ \/ file' = put(FALSE) /\ ctx' = [ctx EXCEPT ![r].bytes = "part"]
                 \/ UNCHANGED <<file, ctx>>
              /\ Goto(r, "check")
        /\ UNCHANGED <<serverVars, report, lock, dir, diskFile, diskDir, unsynced>>

(* sync_database, read back, verify_postappend_database, revalidation. *)
SyncRecord(r) ==
    /\ pc[r] = "sync"
    /\ \/ /\ Works
          /\ diskFile' = file
          /\ Goto(r, IF OwnTail(r) THEN "publish" ELSE "check")
       \/ Fails /\ Goto(r, "check") /\ UNCHANGED diskFile
    /\ UNCHANGED <<serverVars, ctx, report, lock, file, dir, diskDir, unsynced>>

(* promote_staging_directory and rename_noreplace. *)
Publish(r) ==
    /\ pc[r] = "publish"
    /\ \/ /\ Works /\ ~TargetTaken(r)
          /\ SetDir(r, Tree("final", "prepared", TRUE))
          /\ Goto(r, "confirm")
       \/ ((Works /\ TargetTaken(r)) \/ Fails) /\ Goto(r, "check") /\ UNCHANGED dir
    /\ UNCHANGED <<serverVars, ctx, report, lock, file, diskFile, diskDir, unsynced>>

(* Mutant: the publication is not synchronized before Commit. *)
ConfirmUnsynced(r) ==
    /\ pc[r] = "confirm"
    /\ Works
    /\ ctx' = [ctx EXCEPT ![r].prepared = TRUE]
    /\ lock' = Nobody /\ Goto(r, "commit")
    /\ UNCHANGED <<serverVars, report, storage, unsynced>>

(* sync_users_directory and the last verification, then                    *)
(* legacy_userdb_mark_commit_started, which accepts every such context.    *)
Confirm(r) ==
    /\ pc[r] = "confirm"
    /\ \/ /\ Works
          /\ diskDir' = [diskDir EXCEPT ![r] = dir[r]]
          /\ IF OwnTail(r)
             THEN /\ ctx' = [ctx EXCEPT ![r].prepared = TRUE]
                  /\ lock' = Nobody /\ Goto(r, "commit")
             ELSE Goto(r, "check") /\ UNCHANGED <<ctx, lock>>
       \/ Fails /\ Goto(r, "check") /\ UNCHANGED <<ctx, lock, diskDir>>
    /\ UNCHANGED <<serverVars, report, file, dir, diskFile, unsynced>>

-----------------------------------------------------------------------------
(* rollback_locked, first inside prepare and again, when that fails, by    *)
(* legacy_userdb_rollback_precommit.                                       *)

(* The first failure hands the context to the coordinator, which tries     *)
(* once more; after the second the local data is retained.                 *)
UndoFails(r) ==
    /\ lock' = Nobody
    /\ ctx' = [ctx EXCEPT ![r].prepared = TRUE]
    /\ Goto(r, IF ctx[r].retry THEN "abort" ELSE "relock")

Safe(r) ==
    /\ Len(file) = ctx[r].size \/ (OwnTail(r) /\ ctx[r].bytes # "none")
    /\ ~TargetTaken(r)
    /\ OwnTail(r) => dir[r] # NoTree
    /\ ctx[r].marked /\ dir[r] # NoTree => dir[r].marker = "prepared"

(* Identity, length, tail bytes and marker; nothing is changed yet. *)
UndoCheck(r) ==
    /\ pc[r] = "check"
    /\ \/ /\ Works /\ Safe(r)
          /\ ctx' = [ctx EXCEPT ![r].found = ctx[r].bytes # "none" /\ OwnTail(r)]
          /\ Goto(r, IF dir[r].place = "final" THEN "hide" ELSE "truncate")
          /\ UNCHANGED lock
       \/ Works /\ ~Safe(r) /\ UndoFails(r)
       \/ Fails /\ UndoFails(r)
    /\ UNCHANGED <<serverVars, report, storage, unsynced>>

(* The final directory goes back to its staging name. *)
UndoHide(r) ==
    /\ pc[r] = "hide"
    /\ \/ /\ Works
          /\ SetDir(r, [dir[r] EXCEPT !.place = "staging"]) /\ SyncDir(r)
          /\ Goto(r, "truncate") /\ UNCHANGED <<lock, ctx>>
       \/ /\ Fails
          /\ \/ SetDir(r, [dir[r] EXCEPT !.place = "staging"])
             \/ UNCHANGED dir
          /\ UndoFails(r) /\ UNCHANGED diskDir
    /\ UNCHANGED <<serverVars, report, file, diskFile, unsynced>>

(* verify_exact_registration_tree, then ftruncate and fdatasync when the   *)
(* check found the record.                                                 *)
UndoTruncate(r) ==
    LET tree == ctx[r].marked /\ dir[r] # NoTree => dir[r].whole
        cut == SubSeq(file, 1, ctx[r].size)
        found == ctx[r].found
    IN  /\ pc[r] = "truncate"
        /\ \/ /\ Works /\ tree /\ found
              /\ file' = cut /\ diskFile' = cut
              /\ Goto(r, "remove") /\ UNCHANGED <<lock, ctx, unsynced>>
           \/ /\ Works /\ tree /\ ~found
              /\ Goto(r, "remove") /\ UNCHANGED <<lock, ctx, file, diskFile, unsynced>>
           \/ /\ Works /\ ~tree
              /\ UndoFails(r) /\ UNCHANGED <<file, diskFile, unsynced>>
           \/ /\ Fails
              /\ \/ found /\ file' = cut /\ unsynced' = unsynced \cup {r}
                 \/ UNCHANGED <<file, unsynced>>
              /\ UndoFails(r) /\ UNCHANGED diskFile
        /\ UNCHANGED <<serverVars, report, dir, diskDir>>

(* remove_known_tree and the last fsync.  Maildir goes first, the marker   *)
(* after it, the directory last.                                           *)
UndoRemove(r) ==
    /\ pc[r] = "remove"
    /\ \/ /\ Works
          /\ SetDir(r, NoTree) /\ SyncDir(r)
          /\ lock' = Nobody /\ ctx' = [ctx EXCEPT ![r] = NoContext]
          /\ Goto(r, "abort")
       \/ /\ Fails
          /\ \/ UNCHANGED dir
             \/ SetDir(r, NoTree)
             \/ /\ dir[r] # NoTree
                /\ \E m \in {dir[r].marker, "none"} : SetDir(r, Tree("staging", m, FALSE))
          /\ UndoFails(r) /\ UNCHANGED diskDir
    /\ UNCHANGED <<serverVars, report, file, diskFile, unsynced>>

(* Mutant: a busy lock means that there is nothing left to roll back. *)
RelockBusyIsClean(r) ==
    /\ pc[r] = "relock"
    /\ \/ /\ Works /\ lock = Nobody
          /\ lock' = r
          /\ ctx' = [ctx EXCEPT ![r].bytes = "whole", ![r].marked = TRUE, ![r].retry = TRUE]
          /\ Goto(r, "check")
       \/ /\ Fails
          /\ ctx' = [ctx EXCEPT ![r] = NoContext]
          /\ Goto(r, "abort") /\ UNCHANGED lock
    /\ UNCHANGED <<serverVars, report, storage, unsynced>>

(* legacy_userdb_rollback_precommit opens everything again and now asks    *)
(* for the whole record and the marker.                                    *)
Relock(r) ==
    /\ pc[r] = "relock"
    /\ \/ /\ Works /\ lock = Nobody
          /\ lock' = r
          /\ ctx' = [ctx EXCEPT ![r].bytes = "whole", ![r].marked = TRUE, ![r].retry = TRUE]
          /\ Goto(r, "check")
       \/ /\ (Works /\ lock # Nobody) \/ Fails
          /\ Goto(r, "abort") /\ UNCHANGED <<lock, ctx>>
    /\ UNCHANGED <<serverVars, report, storage, unsynced>>

-----------------------------------------------------------------------------
(* FTAP Abort and Commit. *)

(* abort_after_local_failure: a failed rollback outranks a failed abort. *)
Abort(r) ==
    /\ pc[r] = "abort"
    /\ \/ /\ Lifecycle!Withdraw({r})
          /\ Return(r, IF ctx[r].prepared THEN "rollback_failed" ELSE "prepare_failed")
       \/ /\ Lifecycle!Withdraw({r}) \/ UNCHANGED <<standing, visit>>
          /\ Return(r, IF ctx[r].prepared THEN "rollback_failed" ELSE "abort_failed")
    /\ UNCHANGED <<name, ctx, lock, storage, unsynced, bounds>>

Commit(r) ==
    /\ pc[r] = "commit"
    /\ Lifecycle!Admit(r, r)
    /\ Goto(r, "reopen")
    /\ UNCHANGED <<name, ctx, report, lock, storage, unsynced, bounds>>

(* Mutant: a definitive refusal continues to the marker. *)
CommitFailsOn(r) ==
    /\ pc[r] = "commit"
    /\ Goto(r, "reopen")
    /\ UNCHANGED <<serverVars, ctx, report, lock, storage, unsynced, bounds>>

(* An ERROR frame, or no usable answer at all.  The server executed the    *)
(* request in both cases if its database connection broke after COMMIT.    *)
CommitFails(r) ==
    /\ pc[r] = "commit"
    /\ Lifecycle!Admit(r, r) \/ UNCHANGED <<standing, visit>>
    /\ \E status \in {"commit_failed", "outcome_unknown"} : Return(r, status)
    /\ UNCHANGED <<name, ctx, lock, storage, unsynced, bounds>>

-----------------------------------------------------------------------------
(* legacy_userdb_finalize_committed. *)

Reopen(r) ==
    /\ pc[r] = "reopen"
    /\ \/ /\ Works /\ lock = Nobody /\ OwnTail(r)
          /\ lock' = r
          /\ Goto(r, "finalize") /\ UNCHANGED report
       \/ /\ (Works /\ (lock # Nobody \/ ~OwnTail(r))) \/ Fails
          /\ Return(r, "ok_marker_pending") /\ UNCHANGED lock
    /\ UNCHANGED <<serverVars, ctx, storage, unsynced>>

(* write_committed_marker. *)
Finalize(r) ==
    /\ pc[r] = "finalize"
    /\ \/ /\ Works
          /\ SetDir(r, [dir[r] EXCEPT !.marker = "committed"]) /\ SyncDir(r)
          /\ Return(r, "ok")
       \/ /\ Fails
          /\ \/ SetDir(r, [dir[r] EXCEPT !.marker = "committed"])
             \/ UNCHANGED dir
          /\ Return(r, "ok_marker_pending") /\ UNCHANGED diskDir
    /\ lock' = Nobody
    /\ UNCHANGED <<serverVars, ctx, file, diskFile, unsynced>>

-----------------------------------------------------------------------------
(* The rest of the world. *)

(* fortytwo-authd gives the attempt up: deadline, disconnect or expiry. *)
ServerWithdraws(r) ==
    /\ standing[r] = "applicant"
    /\ Lifecycle!Withdraw({r})
    /\ UNCHANGED <<name, pc, ctx, report, lock, storage, unsynced, bounds>>

(* mbnewusr appends without a lock. *)
OtherAppends ==
    /\ others < MaxOthers
    /\ others' = others + 1
    /\ file' = Append(file, Record(Other, TRUE))
    /\ UNCHANGED <<serverVars, pc, ctx, report, lock, dir, diskFile, diskDir, unsynced,
                   faults, stops>>

(* The kernel writes dirty pages and directories back when it likes. *)
Writeback ==
    /\ \/ diskFile # file /\ diskFile' = file /\ UNCHANGED diskDir
       \/ /\ \E r \in Regs : /\ diskDir[r] # dir[r]
                             /\ diskDir' = [diskDir EXCEPT ![r] = dir[r]]
          /\ UNCHANGED diskFile
    /\ UNCHANGED <<serverVars, pc, ctx, report, lock, file, dir, unsynced, bounds>>

Stops == stops < MaxStops /\ stops' = stops + 1 /\ UNCHANGED <<faults, others>>

(* The lock goes with its open file description. *)
Kill(r) ==
    /\ pc[r] \in Working /\ Stops
    /\ Goto(r, "dead")
    /\ lock' = IF lock = r THEN Nobody ELSE lock
    /\ UNCHANGED <<serverVars, ctx, report, storage, unsynced>>

PowerLoss ==
    /\ Stops
    /\ pc' = [r \in Regs |-> IF pc[r] \in Working THEN "dead" ELSE pc[r]]
    /\ lock' = Nobody
    /\ file' = diskFile /\ dir' = diskDir
    /\ UNCHANGED <<serverVars, ctx, report, diskFile, diskDir, unsynced>>

Coordinate(r) ==
    \/ \E n \in Names : Begin(r, n)
    \/ BeginFails(r) \/ Lock(r) \/ Stage(r) \/ AppendRecord(r) \/ SyncRecord(r)
    \/ Publish(r) \/ Confirm(r) \/ Commit(r) \/ CommitFails(r) \/ Reopen(r) \/ Finalize(r)
    \/ UndoCheck(r) \/ UndoHide(r) \/ UndoTruncate(r) \/ UndoRemove(r) \/ Relock(r)
    \/ Abort(r)

Next ==
    \/ \E r \in Regs : Coordinate(r) \/ ServerWithdraws(r) \/ Kill(r)
    \/ OtherAppends \/ Writeback \/ PowerLoss

Spec == Init /\ [][Next]_vars

-----------------------------------------------------------------------------
(* Properties. *)

(* Where a coordinator holds users-data.lock. *)
Critical == {"stage", "append", "sync", "publish", "confirm", "check", "hide",
             "truncate", "remove", "finalize"}

Trees == [place : {"none", "staging", "final"}, marker : {"none", "prepared", "committed"},
          whole : BOOLEAN]

Records == [owner : Regs \cup {Other}, whole : BOOLEAN]

(* The types; and the lock is held by exactly the process that works on    *)
(* the two stores, so that every way out of prepare, rollback and finalize *)
(* gives it back.                                                          *)
TypeOK ==
    /\ standing \in [Regs -> {"none", "applicant", "member", "gone"}]
    /\ name \in [Regs -> Names \cup {Nobody}]
    /\ pc \in [Regs -> Working \cup {"idle", "done", "dead"}]
    /\ ctx \in [Regs -> [size : Nat, bytes : {"none", "part", "whole"}, marked : BOOLEAN,
                         prepared : BOOLEAN, found : BOOLEAN, retry : BOOLEAN]]
    /\ report \in [Regs -> Report]
    /\ lock \in Regs \cup {Nobody}
    /\ file \in Seq(Records) /\ diskFile \in Seq(Records)
    /\ dir \in [Regs -> Trees] /\ diskDir \in [Regs -> Trees]
    /\ unsynced \subseteq Regs
    /\ faults \in Nat /\ stops \in Nat /\ others \in Nat
    /\ \A r \in Regs : lock = r <=> pc[r] \in Critical

Holds(f, r) == \E i \in 1 .. Len(f) : f[i].owner = r

(* A member can always be served: once PostgreSQL admitted the identity,   *)
(* its complete record and its published, marked directory are there, for  *)
(* processes and on the disk, whatever fails, dies or rolls back later.    *)
CommittedIsProvisioned ==
    \A r \in Regs : standing[r] = "member" =>
        /\ \E i \in 1 .. Len(file) : file[i] = Record(r, TRUE)
        /\ \E i \in 1 .. Len(diskFile) : diskFile[i] = Record(r, TRUE)
        /\ dir[r].place = "final" /\ dir[r].marker # "none" /\ dir[r].whole
        /\ diskDir[r].place = "final" /\ diskDir[r].marker # "none" /\ diskDir[r].whole

(* The committed marker is never ahead of PostgreSQL, and a coordinator    *)
(* that reports plain success leaves it on the disk.                       *)
MarkerTruthful ==
    \A r \in Regs :
        /\ dir[r].marker = "committed" \/ diskDir[r].marker = "committed"
               => standing[r] = "member"
        /\ report[r] = "ok" => diskDir[r].marker = "committed"

(* Every failure before Commit restores users.data and removes the tree,   *)
(* or reports that repair is required.  Exempt is a rollback whose         *)
(* truncation could not be synchronized (unsynced), after which a power    *)
(* loss brings the record back; SyncedBeforeRemoval is about that case.    *)
NoSilentResidue ==
    \A r \in Regs :
        report[r] \in {"begin_failed", "prepare_failed", "abort_failed"}
            /\ r \notin unsynced
            => dir[r] = NoTree /\ ~Holds(file, r)

(* README-B4: rollback ends with "the database is truncated and            *)
(* synchronized, and finally the known bounded directory tree is removed". *)
SyncedBeforeRemoval ==
    \A r \in Regs : Holds(diskFile, r) => diskDir[r].marker # "none"

(* README-B4: "A well-formed server ERROR is a definitive negative         *)
(* response".                                                              *)
DefinitiveIsNegative ==
    \A r \in Regs : report[r] = "commit_failed" => standing[r] # "member"

(* README-B4: "append exactly one 598-byte record"; "a later record        *)
(* append" makes the rollback fail closed "instead of destructive          *)
(* guessing".                                                              *)
NoForeignLoss ==
    [][stops' = stops =>
          \A i \in 1 .. Len(file) :
              file[i].owner = Other => i <= Len(file') /\ file'[i] = file[i]]_vars
=============================================================================
