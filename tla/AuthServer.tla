----------------------------- MODULE AuthServer ------------------------------
(***************************************************************************)
(* The event loop of fortytwo-authd (fortytwo-auth/src/authd_server.c)     *)
(* with its client slots, the password jobs it hands to the worker pool    *)
(* and the calls it makes to the account database (AccountStore).          *)
(*                                                                         *)
(* The loop is single-threaded: a handler runs to its end.  A handler that *)
(* returns -1 makes its caller run client_reset before anything else; the  *)
(* model keeps that as a step of its own ("doomed"), because a crash, the  *)
(* database clock or an administrator may come in between.  The pool is    *)
(* the set of jobs that were accepted and not yet taken (JobLedger): any   *)
(* of them may complete next.  Peers may send any frame at any time their  *)
(* output buffer is empty; they choose request ids and may repeat them, so *)
(* a request id tells nothing apart and is left out.  Error codes and end  *)
(* reasons decide nothing and are left out too.                            *)
(***************************************************************************)
EXTENDS AccountStore

CONSTANTS
    Slots,          \* 1 .. max_clients
    QueueCapacity,  \* password_queue_capacity
    MaxGeneration,  \* bound: connections accepted per slot and daemon run
    MaxJobs,        \* bound: password jobs submitted over all daemon runs
    MaxStops        \* bound: crashes and signals

ASSUME ServerAssumption ==
    /\ Slots \subseteq Nat \ {0} /\ IsFiniteSet(Slots) /\ Slots # {}
    /\ QueueCapacity \in Nat \ {0} /\ MaxGeneration \in Nat
    /\ MaxJobs \in Nat /\ MaxStops \in Nat

VARIABLES
    daemon,     \* "down", "starting", "running" or "stopping" (cleanup)
    client,     \* the authd_client_t of each slot
    jobs,       \* accepted by the worker pool, not yet taken back
    next_job,   \* next_job_id of the pool
    doomed,     \* the slot whose handler returned -1, or 0
    typed,      \* history: the last login name and password of each peer
    orphans,    \* history: sessions and identities the daemon lost sight of
    stops       \* number of crashes and signals so far

serverVars == <<daemon, client, jobs, next_job, doomed, typed, orphans, stops>>

vars == <<storeVars, serverVars>>

ConnState == {"CONNECTED", "HELLO_COMPLETE", "REGISTERING", "AUTHENTICATING",
              "SESSION_BOUND", "CLOSING"}

(* Login attempt: worker_job_id, record and deferred_rejection. *)
NoLogin == [job |-> 0, snap |-> NoSnapshot, deferred |-> FALSE]

(* Registration attempt: worker_job_id, login_name and, once               *)
(* database_pending, the user_id and version of the record of Begin.       *)
NoRegistration ==
    [active |-> FALSE, job |-> 0, login |-> None, user |-> None, version |-> 0]

(* out: "none", or the frame in the output buffer; "error" is queued with  *)
(* close_after_write.  session is None unless session_open.                *)
Free(g) ==
    [open |-> FALSE, generation |-> g, state |-> "CONNECTED", out |-> "none",
     login |-> NoLogin, registration |-> NoRegistration, session |-> None]

Live == {c \in Slots : client[c].open}

(* registration.active && registration.database_pending. *)
DatabasePending(c) == client[c].registration.user # None

Init ==
    /\ StoreInit
    /\ daemon = "down"
    /\ client = [c \in Slots |-> Free(0)]
    /\ jobs = {}
    /\ next_job = 1
    /\ doomed = 0
    /\ typed = [c \in Slots |-> [login |-> None, password |-> None]]
    /\ orphans = {}
    /\ stops = 0

-----------------------------------------------------------------------------
(* Replies. *)

(* queue_frame refuses while output is pending; the handler returns -1.    *)
(* The other fields of the client were assigned before.                    *)
Reply(c, kind, new) ==
    IF client[c].out = "none"
    THEN /\ client' = [client EXCEPT ![c] = [new EXCEPT !.out = kind]]
         /\ doomed' = doomed
    ELSE /\ client' = [client EXCEPT ![c] = new]
         /\ doomed' = c

(* An error frame: CLOSING, and the socket is closed once it is written. *)
Refuse(c, new) == Reply(c, "error", [new EXCEPT !.state = "CLOSING"])

(* The loop can serve slot c. *)
Serving(c) == daemon = "running" /\ doomed = 0 /\ client[c].open

(* A complete frame of slot c is handled. *)
Receiving(c) == Serving(c) /\ client[c].out = "none"
-----------------------------------------------------------------------------
(* The daemon. *)

(* main: the connection is opened before the server runs. *)
Launch ==
    /\ daemon = "down"
    /\ Connect
    /\ daemon' = "starting"
    /\ UNCHANGED <<client, jobs, next_job, doomed, typed, orphans, stops>>

(* authd_server_run up to the loop: an expiry batch, then an empty array of *)
(* clients; a failure ends the process.                                     *)
Startup(o) ==
    /\ daemon = "starting"
    /\ ExpireRegistrations(o)
    /\ daemon' = IF o = "ok" THEN "running" ELSE "stopping"
    /\ UNCHANGED <<client, jobs, next_job, doomed, typed, orphans, stops>>

(* The health interval is over: SELECT 1, then an expiry batch.  Both ask   *)
(* the same connection and both end the daemon when they fail, so they are  *)
(* one step.                                                                *)
HealthCheck(o) ==
    /\ daemon = "running" /\ doomed = 0
    /\ ExpireRegistrations(o)
    /\ daemon' = IF o = "ok" THEN "running" ELSE "stopping"
    /\ UNCHANGED <<client, jobs, next_job, doomed, typed, orphans, stops>>

(* SIGTERM or SIGINT. *)
Signalled ==
    /\ daemon = "running" /\ doomed = 0
    /\ stops < MaxStops
    /\ stops' = stops + 1
    /\ daemon' = "stopping"
    /\ UNCHANGED <<storeVars, client, jobs, next_job, doomed, typed, orphans>>

Gone ==
    /\ daemon' = "down"
    /\ client' = [c \in Slots |-> Free(0)]
    /\ jobs' = {}
    /\ doomed' = 0
    /\ typed' = [c \in Slots |-> [login |-> None, password |-> None]]
    /\ link' = FALSE
    /\ UNCHANGED <<account, session, faults, next_job>>

(* Cleanup is over: the pool is destroyed and the connection closed. *)
Exit ==
    /\ daemon = "stopping" /\ Live = {}
    /\ Gone
    /\ UNCHANGED <<orphans, stops>>

(* The process dies without any cleanup. *)
Crash ==
    /\ daemon # "down"
    /\ stops < MaxStops
    /\ stops' = stops + 1
    /\ Gone
    /\ orphans' = orphans \cup {s \in Sessions : session[s].state = "open"}
                          \cup {u \in Accounts : Pending(u)}

-----------------------------------------------------------------------------
(* Connections. *)

(* find_free_client: the first free slot. *)
FirstFree(c) == ~client[c].open /\ \A d \in Slots : d < c => client[d].open

Accept(c) ==
    /\ daemon = "running" /\ doomed = 0
    /\ FirstFree(c)
    /\ client[c].generation < MaxGeneration
    /\ client' = [client EXCEPT ![c] = [Free(client[c].generation + 1) EXCEPT !.open = TRUE]]
    /\ typed' = [typed EXCEPT ![c] = [login |-> None, password |-> None]]
    /\ UNCHANGED <<storeVars, daemon, jobs, next_job, doomed, orphans, stops>>

(* The handler of slot c returned -1, or cleanup reached slot c. *)
ToReset(c) ==
    \/ doomed = c
    \/ /\ daemon = "stopping" /\ doomed = 0
       /\ client[c].open
       /\ \A d \in Slots : d < c => ~client[d].open

(* Mutant: client_reset forgets the session. *)
ReleaseNoClose(c, o) ==
    \/ /\ DatabasePending(c)
       /\ AbortRegistration(client[c].registration.user, o)
       /\ orphans' = IF ~Executed(o) THEN orphans \cup {client[c].registration.user}
                                     ELSE orphans
    \/ /\ ~DatabasePending(c)
       /\ o = "ok"
       /\ UNCHANGED <<storeVars, orphans>>

(* What client_reset does to the database: abort_registration_on_reset or  *)
(* close_terminal_session, once and best-effort.                           *)
Release(c, o) ==
    \/ /\ DatabasePending(c)
       /\ AbortRegistration(client[c].registration.user, o)
       /\ orphans' = IF ~Executed(o) THEN orphans \cup {client[c].registration.user}
                                     ELSE orphans
    \/ /\ client[c].session # None
       /\ CloseTerminalSession(client[c].session, o)
       /\ orphans' = IF ~Executed(o) THEN orphans \cup {client[c].session} ELSE orphans
    \/ /\ ~DatabasePending(c) /\ client[c].session = None
       /\ o = "ok"
       /\ UNCHANGED <<storeVars, orphans>>

ClientReset(c, o) ==
    /\ ToReset(c)
    /\ Release(c, o)
    /\ client' = [client EXCEPT ![c] = Free(client[c].generation)]
    /\ typed' = [typed EXCEPT ![c] = [login |-> None, password |-> None]]
    /\ doomed' = 0
    /\ UNCHANGED <<daemon, jobs, next_job, stops>>

(* The peer closes the socket, breaks it or sends bytes that are no frame. *)
Disconnect(c) ==
    /\ Serving(c)
    /\ doomed' = c
    /\ UNCHANGED <<storeVars, daemon, client, jobs, next_job, typed, orphans, stops>>

(* write_client empties the output buffer. *)
WriteClient(c) ==
    /\ Serving(c) /\ client[c].out # "none"
    /\ client' = [client EXCEPT ![c].out = "none"]
    /\ doomed' = IF client[c].out = "error" THEN c ELSE 0
    /\ UNCHANGED <<storeVars, daemon, jobs, next_job, typed, orphans, stops>>

ExpireHello(c) ==
    /\ Serving(c) /\ client[c].state = "CONNECTED"
    /\ doomed' = c
    /\ UNCHANGED <<storeVars, daemon, client, jobs, next_job, typed, orphans, stops>>

(* deadline_ms passes.  A failure of the UPDATE of the attempt is reported *)
(* as STALE_STATE, any other as an error: only the error is tried again.   *)
ExpireRegistration(c, o) ==
    LET u == client[c].registration.user
    IN  /\ Serving(c) /\ DatabasePending(c)
        /\ AbortRegistration(u, o)
        /\ \E cleared \in BOOLEAN :
              /\ o = "ok" => cleared
              /\ client' = [client EXCEPT
                    ![c].state = "CLOSING",
                    ![c].registration = IF cleared THEN NoRegistration ELSE @]
              /\ orphans' = IF cleared /\ ~Executed(o) THEN orphans \cup {u} ELSE orphans
        /\ doomed' = c
        /\ UNCHANGED <<daemon, jobs, next_job, typed, stops>>
-----------------------------------------------------------------------------
(* Frames (handle_complete_frame). *)

Hello(c) ==
    /\ Receiving(c) /\ client[c].state = "CONNECTED"
    /\ Reply(c, "frame", [client[c] EXCEPT !.state = "HELLO_COMPLETE"])
    /\ UNCHANGED <<storeVars, daemon, jobs, next_job, typed, orphans, stops>>

(* A frame that does not decode or does not validate in this state, or a   *)
(* HELLO without a supported version: only a running login is given up.    *)
InvalidFrame(c) ==
    /\ Receiving(c)
    /\ IF client[c].login.job # 0
       THEN Refuse(c, [client[c] EXCEPT !.login = NoLogin])
       ELSE Reply(c, "error", client[c])
    /\ UNCHANGED <<storeVars, daemon, jobs, next_job, typed, orphans, stops>>

(* A valid frame the daemon has no handler for, or a request its handler   *)
(* turns down before it calls the pool or the database: registration       *)
(* disabled or limited, password policy, a foreign registration id, Commit *)
(* or Abort before Begin was answered.  Attempts in progress stay.         *)
RejectedFrame(c) ==
    /\ Receiving(c)
    /\ Refuse(c, client[c])
    /\ UNCHANGED <<storeVars, daemon, jobs, next_job, typed, orphans, stops>>

SubmitOk == Cardinality(jobs) < QueueCapacity

Submit(c, kind, p, against) ==
    /\ jobs' = jobs \cup
         {[id |-> next_job, slot |-> c, generation |-> client[c].generation,
           kind |-> kind, password |-> p, against |-> against]}
    /\ next_job' = next_job + 1

(* start_password_login while one is running. *)
SecondPasswordRequest(c) ==
    /\ Receiving(c) /\ client[c].state = "AUTHENTICATING"
    /\ Refuse(c, [client[c] EXCEPT !.login = NoLogin])
    /\ UNCHANGED <<storeVars, daemon, jobs, next_job, typed, orphans, stops>>

(* start_password_login.  An unknown, ambiguous or unavailable account is  *)
(* verified against the dummy hash and rejected when that is done.         *)
PasswordRequest(c, l, p, o) ==
    LET rows == LookupRows(l)
        known == Cardinality(rows) = 1
        u == CHOOSE r \in rows : TRUE
        throttled == known /\ account[u].status = "active" /\ account[u].throttled
        available == known /\ account[u].status = "active" /\ ~account[u].throttled
    IN  /\ Receiving(c) /\ client[c].state = "HELLO_COMPLETE"
        /\ next_job <= MaxJobs
        /\ ReadOnlyCall(o)
        /\ typed' = [typed EXCEPT ![c] = [login |-> l, password |-> p]]
        /\ IF o # "ok" \/ throttled \/ ~SubmitOk
           THEN Refuse(c, client[c]) /\ UNCHANGED <<jobs, next_job>>
           ELSE /\ Submit(c, "verify", p, IF available THEN account[u].password ELSE None)
                /\ client' = [client EXCEPT
                     ![c].state = "AUTHENTICATING",
                     ![c].login = [job |-> next_job, deferred |-> ~available,
                                   snap |-> IF available THEN Snapshot(u) ELSE NoSnapshot]]
                /\ doomed' = doomed
        /\ UNCHANGED <<daemon, orphans, stops>>

(* start_registration, once the checks of RejectedFrame are passed. *)
RegistrationRequest(c, l, p) ==
    /\ Receiving(c) /\ client[c].state = "HELLO_COMPLETE"
    /\ next_job <= MaxJobs
    /\ typed' = [typed EXCEPT ![c] = [login |-> l, password |-> p]]
    /\ IF ~SubmitOk
       THEN Refuse(c, client[c]) /\ UNCHANGED <<jobs, next_job>>
       ELSE /\ Submit(c, "generate", p, None)
            /\ client' = [client EXCEPT
                 ![c].state = "REGISTERING",
                 ![c].registration = [NoRegistration EXCEPT !.active = TRUE,
                                        !.job = next_job, !.login = l]]
            /\ doomed' = doomed
    /\ UNCHANGED <<storeVars, daemon, orphans, stops>>

(* Mutant: a failed commit clears the attempt like every other failure. *)
CommitRequestForgets(c, s, o) ==
    LET u == client[c].registration.user
        v == client[c].registration.version
        done == [client[c] EXCEPT !.registration = NoRegistration]
    IN  /\ Receiving(c) /\ client[c].state = "REGISTERING" /\ DatabasePending(c)
        /\ CommitRegistration(u, v, s, o)
        /\ IF o = "ok" /\ Committable(u, v)
           THEN Reply(c, "frame", [done EXCEPT !.session = s, !.state = "SESSION_BOUND"])
           ELSE Refuse(c, done)
        /\ orphans' = IF o = "lost" /\ Committable(u, v) THEN orphans \cup {s} ELSE orphans
        /\ UNCHANGED <<daemon, jobs, next_job, typed, stops>>

(* commit_registration.  After a failure the attempt stays bound, so that  *)
(* client_reset aborts it.                                                 *)
CommitRequest(c, s, o) ==
    LET u == client[c].registration.user
        v == client[c].registration.version
    IN  /\ Receiving(c) /\ client[c].state = "REGISTERING" /\ DatabasePending(c)
        /\ CommitRegistration(u, v, s, o)
        /\ IF o = "ok" /\ Committable(u, v)
           THEN Reply(c, "frame", [client[c] EXCEPT !.registration = NoRegistration,
                                                   !.session = s,
                                                   !.state = "SESSION_BOUND"])
           ELSE Refuse(c, client[c])
        /\ orphans' = IF o = "lost" /\ Committable(u, v) THEN orphans \cup {s} ELSE orphans
        /\ UNCHANGED <<daemon, jobs, next_job, typed, stops>>

(* abort_registration. *)
AbortRequest(c, o) ==
    LET u == client[c].registration.user
    IN  /\ Receiving(c) /\ client[c].state = "REGISTERING" /\ DatabasePending(c)
        /\ AbortRegistration(u, o)
        /\ IF o = "ok" /\ Pending(u)
           THEN Reply(c, "frame", [client[c] EXCEPT !.registration = NoRegistration,
                                                   !.state = "HELLO_COMPLETE"])
           ELSE Refuse(c, client[c])
        /\ UNCHANGED <<daemon, jobs, next_job, typed, orphans, stops>>

(* queue_session_context_result. *)
SessionContext(c) ==
    /\ Receiving(c) /\ client[c].state = "SESSION_BOUND"
    /\ Reply(c, "frame", client[c])
    /\ UNCHANGED <<storeVars, daemon, jobs, next_job, typed, orphans, stops>>

(* close_bound_session: a failed close is left to client_reset.  A reason   *)
(* that cannot be parsed ends in client_reset too, which is Disconnect.     *)
SessionClose(c, o) ==
    /\ Receiving(c) /\ client[c].state = "SESSION_BOUND"
    /\ CloseTerminalSession(client[c].session, o)
    /\ client' = [client EXCEPT ![c].state = "CLOSING",
                                ![c].session = IF o = "ok" THEN None ELSE @]
    /\ doomed' = c
    /\ UNCHANGED <<daemon, jobs, next_job, typed, orphans, stops>>

-----------------------------------------------------------------------------
(* Worker completions (process_worker_completions). *)

Completing(j) == daemon = "running" /\ doomed = 0 /\ j \in jobs

(* Mutant: a completion belongs to whatever login runs in its slot. *)
MatchesSlotOnly(j) ==
    /\ client[j.slot].open
    /\ j.kind = "verify" /\ client[j.slot].login.job # 0

MatchesLogin(j) ==
    /\ client[j.slot].open
    /\ client[j.slot].generation = j.generation
    /\ j.kind = "verify" /\ client[j.slot].login.job = j.id

MatchesRegistration(j) ==
    /\ client[j.slot].open
    /\ client[j.slot].generation = j.generation
    /\ j.kind = "generate" /\ client[j.slot].registration.job = j.id

(* A completion without a live request is wiped. *)
DropCompletion(j) ==
    /\ Completing(j) /\ ~MatchesLogin(j) /\ ~MatchesRegistration(j)
    /\ jobs' = jobs \ {j}
    /\ UNCHANGED <<storeVars, daemon, client, next_job, doomed, typed, orphans, stops>>

(* Mutant: the attempt is not cleared, only the connection is closing. *)
LoginRejectedKeeps(j) ==
    /\ Completing(j) /\ MatchesLogin(j)
    /\ jobs' = jobs \ {j}
    /\ Refuse(j.slot, client[j.slot])
    /\ UNCHANGED <<storeVars, daemon, next_job, typed, orphans, stops>>

(* The deferred rejection, or a verification that itself failed. *)
LoginRejected(j) ==
    /\ Completing(j) /\ MatchesLogin(j)
    /\ jobs' = jobs \ {j}
    /\ Refuse(j.slot, [client[j.slot] EXCEPT !.login = NoLogin])
    /\ UNCHANGED <<storeVars, daemon, next_job, typed, orphans, stops>>

WrongPassword(j, o) ==
    LET c == j.slot
    IN  /\ Completing(j) /\ MatchesLogin(j) /\ ~client[c].login.deferred
        /\ j.password # j.against
        /\ jobs' = jobs \ {j}
        /\ RecordPasswordFailure(client[c].login.snap.user, o)
        /\ Refuse(c, [client[c] EXCEPT !.login = NoLogin])
        /\ UNCHANGED <<daemon, next_job, typed, orphans, stops>>

RightPassword(j, s, o) ==
    LET c == j.slot
        snap == client[c].login.snap
        granted == SessionVerdict(snap) = "ok"
        done == [client[c] EXCEPT !.login = NoLogin]
    IN  /\ Completing(j) /\ MatchesLogin(j) /\ ~client[c].login.deferred
        /\ j.password = j.against
        /\ jobs' = jobs \ {j}
        /\ CreatePasswordSession(snap, s, o)
        /\ IF o = "ok" /\ granted
           THEN Reply(c, "frame", [done EXCEPT !.session = s, !.state = "SESSION_BOUND"])
           ELSE Refuse(c, done)
        /\ orphans' = IF o = "lost" /\ granted THEN orphans \cup {s} ELSE orphans
        /\ UNCHANGED <<daemon, next_job, typed, stops>>

(* complete_registration_hash without a hash or without a free legacy key. *)
RegistrationFailed(j) ==
    LET c == j.slot
    IN  /\ Completing(j) /\ MatchesRegistration(j)
        /\ jobs' = jobs \ {j}
        /\ Refuse(c, [client[c] EXCEPT !.registration = NoRegistration])
        /\ UNCHANGED <<storeVars, daemon, next_job, typed, orphans, stops>>

(* complete_registration_hash.  That the clock of the deadline cannot be    *)
(* read after Begin (and the attempt is aborted) is left out.               *)
RegistrationHashed(j, u, o) ==
    LET c == j.slot
        l == client[c].registration.login
        begun == BeginVerdict(l) = "ok"
    IN  /\ Completing(j) /\ MatchesRegistration(j)
        /\ jobs' = jobs \ {j}
        /\ BeginRegistration(l, j.password, u, o)
        /\ IF o = "ok" /\ begun
           THEN Reply(c, "frame", [client[c] EXCEPT !.registration.job = 0,
                                                   !.registration.user = u,
                                                   !.registration.version = 1])
           ELSE Refuse(c, [client[c] EXCEPT !.registration = NoRegistration])
        /\ orphans' = IF o = "lost" /\ begun THEN orphans \cup {u} ELSE orphans
        /\ UNCHANGED <<daemon, next_job, typed, stops>>

-----------------------------------------------------------------------------
Daemon ==
    \/ Launch \/ Signalled \/ Exit \/ Crash
    \/ \E o \in Outcome : Startup(o) \/ HealthCheck(o)

Connection(c) ==
    \/ Accept(c) \/ Disconnect(c) \/ WriteClient(c) \/ ExpireHello(c)
    \/ \E o \in Outcome : ClientReset(c, o) \/ ExpireRegistration(c, o)

Frame(c) ==
    \/ Hello(c) \/ InvalidFrame(c) \/ RejectedFrame(c)
    \/ SecondPasswordRequest(c) \/ SessionContext(c)
    \/ \E l \in Logins, p \in Passwords :
          \/ RegistrationRequest(c, l, p)
          \/ \E o \in Outcome : PasswordRequest(c, l, p, o)
    \/ \E o \in Outcome :
          \/ AbortRequest(c, o) \/ SessionClose(c, o)
          \/ \E s \in Sessions : CommitRequest(c, s, o)

Completion(j) ==
    \/ DropCompletion(j) \/ LoginRejected(j) \/ RegistrationFailed(j)
    \/ \E o \in Outcome :
          \/ WrongPassword(j, o)
          \/ \E s \in Sessions : RightPassword(j, s, o)
          \/ \E u \in Accounts : RegistrationHashed(j, u, o)

(* The environment of the database; the daemon's own state stays. *)
Outside == World /\ UNCHANGED serverVars

Next ==
    \/ Daemon
    \/ \E c \in Slots : Connection(c) \/ Frame(c)
    \/ \E j \in jobs : Completion(j)
    \/ Outside

Spec == Init /\ [][Next]_vars
(***************************************************************************)
(* Fairness: the loop keeps running and polls its completion descriptor,   *)
(* the workers finish their jobs (EveryJobLeaves of WorkerPool), the       *)
(* service manager restarts the daemon, the health timer and the deadlines *)
(* fire, and time passes.  Nothing is assumed of the peers, and the        *)
(* database may still fail MaxFaults times.                                *)
(***************************************************************************)
Fairness ==
    /\ WF_vars(Launch)
    /\ WF_vars(\E o \in Outcome : Startup(o))
    /\ WF_vars(\E o \in Outcome : HealthCheck(o))
    /\ WF_vars(\E c \in Slots, o \in Outcome : ClientReset(c, o))
    /\ WF_vars(Exit)
    /\ WF_vars(\E j \in jobs : Completion(j))
    /\ \A c \in Slots : WF_vars(ExpireHello(c))
    /\ \A u \in Accounts : WF_vars(Elapse(u) /\ UNCHANGED serverVars)

FairSpec == Spec /\ Fairness

-----------------------------------------------------------------------------
(* Properties. *)

LoginAttempt == [job : Nat, deferred : BOOLEAN,
                 snap : [user : Accounts \cup {None}, version : Nat,
                         password : Passwords \cup {None}]]

RegistrationAttempt == [active : BOOLEAN, job : Nat, login : Logins \cup {None},
                        user : Accounts \cup {None}, version : Nat]

Client == [open : BOOLEAN, generation : Nat, state : ConnState,
           out : {"none", "frame", "error"}, login : LoginAttempt,
           registration : RegistrationAttempt, session : Sessions \cup {None}]

Job == [id : Nat, slot : Slots, generation : Nat, kind : {"verify", "generate"},
        password : Passwords, against : Passwords \cup {None}]

(* A running login, a running registration and an open session exclude     *)
(* each other, and a free slot holds none of them.                         *)
TypeOK ==
    /\ StoreTypeOK
    /\ daemon \in {"down", "starting", "running", "stopping"}
    /\ client \in [Slots -> Client]
    /\ jobs \subseteq Job
    /\ next_job \in Nat /\ stops \in Nat
    /\ doomed \in Slots \cup {0}
    /\ typed \in [Slots -> [login : Logins \cup {None}, password : Passwords \cup {None}]]
    /\ orphans \subseteq Sessions \cup Accounts
    /\ \A c \in Slots :
          /\ ~client[c].open => client[c] = Free(client[c].generation)
          /\ ~client[c].registration.active => client[c].registration = NoRegistration
          /\ client[c].session # None =>
                client[c].login = NoLogin /\ client[c].registration = NoRegistration
          /\ client[c].login # NoLogin => client[c].registration = NoRegistration

(* The PostgreSQL session is bound to exactly one authenticated socket:    *)
(* every open session, except one that a crash or a failed database call   *)
(* took out of the daemon's sight, is held by exactly one live connection. *)
SessionsBound ==
    /\ \A s \in Sessions \ orphans :
          session[s].state = "open" => \E c \in Live : client[c].session = s
    /\ \A c, d \in Live :
          client[c].session = client[d].session /\ client[c].session # None => c = d

(* A pending identity is bound to one live connection that will commit or  *)
(* abort it: every reset after Begin performs the Abort, also when the     *)
(* Begin was carried out for a connection that was already closing.        *)
AttemptsBound ==
    /\ \A u \in Accounts \ orphans :
          Pending(u) => \E c \in Live : client[c].registration.user = u
    /\ \A c, d \in Live :
          client[c].registration.user = client[d].registration.user
              /\ DatabasePending(c) => c = d

(* A session is opened only for the connection whose own peer typed the    *)
(* login name and the password that the account has at this moment, while  *)
(* the account is active, not throttled and allowed to log in: no stale    *)
(* completion, reused slot, concurrent failure or administrative change    *)
(* between the lookup and the session lets another one in.                 *)
SessionEarned ==
    [][\A s \in Sessions :
          session[s].state = "absent" /\ session'[s].state = "open" =>
              LET u == session'[s].user
              IN  /\ account'[u].status = "active" /\ account'[u].role
                  /\ ~account[u].throttled
                  /\ \E c \in Live :
                        /\ typed[c].login = account[u].login
                        /\ typed[c].password = account[u].password
                        /\ client'[c].session = s \/ s \in orphans']_vars

(* Every pending identity is eventually completed, aborted or failed, even *)
(* when the daemon crashed or lost the database after Begin.               *)
RegistrationSettles == \A u \in Accounts : Pending(u) ~> ~Pending(u)

(* A login that was handed to the pool is answered or its connection ends. *)
LoginAnswered ==
    \A c \in Slots : client[c].login.job # 0 ~> client[c].login.job = 0

(* README-B3: when the success frame cannot be sent "the new session is    *)
(* immediately closed"; "no open ghost session is left behind".            *)
NoGhostSession ==
    [][\A c \in Slots :
          client[c].session # None /\ daemon' = daemon /\ ~client'[c].open
              => session'[client[c].session].state = "closed"]_vars

(* FTAP-1 section 23 names a write timeout: a connection that is being     *)
(* closed gives its slot back.                                             *)
ClosingEnds ==
    \A c \in Slots : client[c].state = "CLOSING" ~> client[c].state # "CLOSING"
=============================================================================
