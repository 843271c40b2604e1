# A verification development for FortyTwoBBS

FortyTwoBBS is a fork of MBSE BBS with a new authentication subsystem,
`fortytwo-auth`. A daemon, `fortytwo-authd`, owns identities, passwords, sessions
and registrations in PostgreSQL and speaks FTAP over a Unix socket. A login
program, `fortytwo-login`, runs in front of the bulletin board, authenticates or
registers the caller and hands the authenticated socket to `mbsebbs`. A
registration also has to create the user in the old `users.data` file, so it is
a transaction over two stores that share no transaction manager.

These modules model that subsystem first. It is the code this repository adds,
it is concurrent, and it must survive crashes, lost replies and power losses.
After it come the parts of MBSE in which several processes or two machines
meet: the task manager `mbtask`, the session of the board from login to logout,
the message bases, and the file transfers of the mailer `mbcico`.

## Inventory

### Components

| Component | State | Operations | What makes it correct |
| --- | --- | --- | --- |
| Argon2id worker pool, `authd_worker_pool.c` | pending and completed queues, outstanding count, eventfd semaphore, stopping flag | create, submit, worker loop, take completion, destroy | the count is exact, a token means a completion, no lost wakeup, each job is hashed and reported once, shutdown returns |
| Registration limiter, `authd_registration_limit.c` | fixed table of windows per address | record an attempt | at most N attempts per address and window, no live counter is evicted, the retry time is exact |
| Account database, `authd_database.c`, migrations | users, credentials, bindings, roles, registration attempts, sessions | lookup, record failure, create and close session, begin, commit, abort and expire registration | the tables agree, a name finds one row, no session without a member, an expired attempt is never activated |
| Event loop, `authd_server.c` | client slots with generation, protocol state, login and registration attempt, bound session | accept, read a frame, HELLO, password login, registration begin, commit, abort, session query and close, completion, deadlines, health check, reset, shutdown | a completion never reaches another connection, each open session and pending identity belongs to one live connection, every pending identity settles |
| FTAP schema and codec, `ftap_schema.c`, `ftap_codec.c` | none | which message is allowed in which state; encoding | dispatch only in the allowed states |
| Registration coordinator and legacy provisioning, `registration_coordinator.c`, `legacy_userdb_provision.c` | lock, `users.data`, user directory, marker file, prepared context | prepare, commit, finalize, roll back, abort | a member is always provisioned, a marker is never ahead of the database, a failure is never silent |
| FTAP client, `ftap_client.c` | one connection with a deadline per exchange | connect, HELLO, authenticate, begin, commit, abort, session query and close, handover | an unknown outcome is reported as unknown |
| Login front end, `fortytwo_login.c`, `terminal_gate.c` | none beyond the process | gate, prompt, authenticate or register, hand over, exec | an opened session is handed over or closed |
| Session bootstrap in the board, `mbsebbs/fortytwo_session.c` | adopted descriptor, user lock, private directory | bootstrap, prepare, close | one session per user at a time, state removed before the lock |
| Bulletin board, `mbsebbs/user.c`, `exitinfo.c`, `bye.c`, `timeout.c`, `door.c` | the user's record in memory, in a private file and in `users.data` | login, change, door, signal, logout | no change of a record is lost, a session left in order is closed |
| Client registry, `mbtask/taskregs.c` | registrations with timers, counts of mailers, page requests | register, close, time out, page | counts agree with the table, a silent client is freed, one user pages |
| Task manager, `mbtask/mbtask.c`, `taskstat.c`, `calllist.c` | task table, call list, semaphores, timers | scheduler round, launch, reap, rescan, shut down | calls are tracked, one tosser at a time, the shutdown overlooks no task |
| Mailer, `mbcico/binkp.c`, `hydra.c`, `bopenfile.c`, `openfile.c` | file lists, receive and transmit state, message queue, timers | handshake, file transfer, acknowledgement, resume | a file is disposed of only when the peer has it, a session ends |
| Message base, `lib/jammsg.c`, `msg.c`, `mbsebbs/mail.c`, `mbfido/mbmsg.c`, `storeecho.c` | headers, index, texts, lastread pointers | post, read, delete, kill, pack | numbers are places, the count adds up, what is new stays new, nothing is lost |
| InterBBS chat, `mbtask/taskibc.c`, `taskchat.c` | links, servers, users, channels | link state machine, SERVER, SQUIT, USER, JOIN, ... | tables follow the links that are up |
| Rest of the tosser, news server, monitor, setup, utilities, library | files | interactive or batch | not modelled, see below |

### How they interact

* `fortytwo-login` calls the daemon through FTAP frames on a Unix socket. The
  daemon's loop is single-threaded; it calls PostgreSQL synchronously, one
  connection, and gives password work to the pool. The pool announces
  completions on an eventfd that the loop polls.
* A completion carries the slot, the generation and the job id it was submitted
  for. These decide whether it still has an owner.
* For a registration, the coordinator calls `Begin` on the daemon, writes
  `users.data` and the user directory under `users-data.lock`, calls `Commit`,
  and replaces the prepared marker by a committed one. Everything before `Commit`
  can be rolled back, nothing after it.
* `mbnewusr` (`mbsebbs/newuser.c`) appends to the same `users.data` without the lock.
* `fortytwo-login` hands its connection to `mbsebbs` as descriptor 3 over `exec`.
  The daemon keeps the session open as long as any process holds that descriptor.
  `mbsebbs` takes a lock per user, keeps a private copy of the whole record and
  writes it back at the end.
* Every MBSE program registers with `mbtask` and says from time to time that it
  is alive; `mbtask` launches the mailer and the tosser when semaphores or the
  call list ask for them and polls them with `wait4`.
* The board, the tosser, the news server and `mbmsg` share message bases through
  a lock on the header file that each takes after opening it.
* Two mailers exchange files over a link that breaks (binkp) or loses packets (Hydra).
* PostgreSQL changes without the daemon: attempts expire, throttles end,
  administrators change accounts, the connection breaks.

### Hard behaviours

Each is listed with its line under `hazards` in `PROJECT.json`: completions that
arrive after their connection is gone; database calls that are executed although
the reply is lost; a daemon that dies between `Begin` and `Commit`; abort, expiry
and commit of one attempt racing each other; a rollback that fails half-way and
is run again from another state; a power loss between a write and its sync; a
commit whose answer is lost; a full table of counters, a full job queue; a
signal on a condition variable that meets nobody; two sessions of one user and
signals at any step of a logout; a client of `mbtask` that dies while it is
counted; tasks that are stopped, not ended; links that break inside a file,
timers that expire while the answer is on its way, both sides waiting for each
other; what a program read of a message base before it had the lock.

Known and not in that list, for they are smaller or have no property: a pool
that fails to create a thread (`authd_worker_pool.c:365`); the order of reply and
close (`authd_server.c:1754`) and the poll timeout (`authd_server.c:2412`); frames a
peer pipelines while a hash is running (`authd_server.c:2214`); the limit of pending
attempts (`authd_database.c:1647`, proved); a second rollback from another state
(`legacy_userdb_provision.c:2606`), a writer without the lock (`:663`), a marker that stays
prepared (`:2309`), a torn record (`:1149`); the exits of the front end with an open
session (`fortytwo_login.c:1060`); datagrams of the chat (`taskibc.c:895`); the ring of
personal messages, whose index wraps one too late (`taskregs.c:491`), and a pid that
is used again (`taskregs.c:161`); a request cleared although the launch failed
(`mbtask.c:1349`), the limit of calls that counts registrations (`mbtask.c:1465`), a
rotation that reaches one past the call list (`mbtask.c:1457`), fifteen seconds to end
(`mbtask.c:739`); a received file that cannot be moved (`bopenfile.c:180`).

## Modules and the code

| Module | Models | Uses |
| --- | --- | --- |
| `JobLedger` | what a caller of the pool relies on: a job is accepted, worked on, ready, taken, or dropped by a stop | |
| `WorkerPool` | `authd_worker_pool.c` | refines `JobLedger` |
| `RegistrationLimit` | `authd_registration_limit.c` | |
| `AccountLifecycle` | what the database promises: applied for, then admitted with a first session or withdrawn for good; only members enter; a session is closed once | |
| `AccountStore` | `authd_database.c` and the constraints of the migrations | refines `AccountLifecycle` |
| `AuthServer` | `authd_server.c`, the state table of `ftap_schema.c`, start and stop of `fortytwo_authd.c` | extends `AccountStore`; the pool appears as the set of jobs of `JobLedger` |
| `RegistrationCoordinator` | `registration_coordinator.c`, `legacy_userdb_provision.c`, the commit outcome of `ftap_client.c`, the append of `newuser.c` | the server side is `AccountLifecycle`, the specification `AccountStore` implements |
| `ClientRegistry` | `taskregs.c` without the ring of personal messages | |
| `TaskManager` | the scheduler of `mbtask.c`, `taskstat.c`, `calllist.c` | the registry's counts appear as the mailers that run |
| `BoardSession` | `run_login`, `fortytwo_session.c`, the login, private record, doors, signals and logout of `mbsebbs` | the daemon appears as the end of the connection |
| `BinkpSession` | the file transfer of `binkp.c` and `bopenfile.c`, both sides and the link | |
| `HydraBatch` | one batch of `hydra.c`, both sides and the line | |
| `MessageBase` | `jammsg.c` as the board, programs that post and `mbmsg` use it | |
| `AuthdLimits_proofs` | theorems about `WorkerPool`, its refinement among them, and `RegistrationLimit` | extends both |
| `AuthServer_proofs` | theorems about `AccountStore`, its refinement among them, and `AuthServer` | extends both |
| `Sessions_proofs` | theorems about `BoardSession` and `ClientRegistry` | extends both |
| `RegistrationCoordinator_proofs`, `TaskManager_proofs`, `MessageBase_proofs`, `BinkpSession_proofs`, `HydraBatch_proofs` | theorems about these modules | each extends its own |
| `MC_*` | the instances for TLC | |

`map` in `PROJECT.json` gives the lines behind each definition. The mutants beside a
definition (`ExpiredLate`, `FitsAnywhere`, ...) are variations with a
plausible mistake; each breaks one property and none is used by a specification.

**WorkerPool.** A step is one critical section of the pool's mutex or one call
on the eventfd. Workers are at `lock`, `waiting`, `executing`, `notify`,
`failing`, ...; the caller is idle, taking a completion, joining or cleaning up a failed
create. A job is its id; passwords never influence the queues. The push of a
completion and the raise of its token are separate steps, as in the code.

**RegistrationLimit.** One action, an attempt, does the whole scan of the code:
it reclaims expired entries up to the entry of the address, then counts,
refuses or takes a free entry. Its specification is `LimiterSpec`, so that it can stand
beside another in one module. The history variable `allowed` records the times
of allowed attempts, from which the rate bound is read off.

**AccountStore.** Every public call is one statement or transaction, hence one
step. A row joins what five tables keep for one `user_id`. Each call has an
outcome: `ok`, `failed` (not executed) or `lost` (executed, reply lost). The
environment lets attempts expire, throttles end, administrators act and the
link break. `must_change`, `locked` and `disabled` are one status, `auth_epoch`
and `authz_revision` one version, because every reader treats them alike.
`failed_count` saturates at `CountLimit`, 2147483647 in the code.

**AuthServer.** A handler is one step. A handler that returns -1 is followed by
`client_reset`, a step of its own (`doomed`) since a crash or the database clock
may come between. Peers send any frame at any time their output buffer is
empty. `typed` (what a peer typed last) and `orphans` (what a crash or a failed
call took out of the daemon's sight) are history variables. The health check and the
expiry that follows it are one step; a `SESSION_CLOSE` whose reason cannot be parsed is
the same as a disconnect; that the clock cannot be read after a successful `Begin`
(`authd_server.c:1760-1784`) is left out.

**RegistrationCoordinator.** Every durable call is a step that may fail. `file`
and `dir` are what processes see, `diskFile` and `diskDir` what a power loss
leaves; `Writeback` moves content to the disk without being asked. A record is
its owner and whether all its bytes are there. Paths, owners, modes and inodes
only make a step fail, and any step may fail; the check of what was written
(`legacy_userdb_provision.c:2884`) and a file that grew or shrank in between (`:2167`,
`:2187`, where the code refuses to go on) are such failures too.

**ClientRegistry.** A command on the socket, a pass of `reg_check` and the death
of a process are steps. A process may fall silent, survive SIGTERM, or die
without closing its registration. Pids are not used again while registered. A child of
`mbtask` may stay a zombie, although the code ignores SIGCHLD in most of its life:
that only adds behaviours.

**TaskManager.** `Turn` is what one pass of the main loop does before it launches
(`reg_check`, `check_ports`, `checktasks`); scans, each launch and each call are steps
of their own, because programs end in between. ISDN and POTS are one kind of line, a
retry time is whether it is due, `s_scanout` is part of the rescan, there is one
nodelist compiler, and the start of the master files is left out. `Behind` is what lies
behind the last entry of the call list, an empty entry here. `die()` is called by the loop and
is itself the handler of SIGHUP, SIGPIPE, SIGBUS, SIGILL, SIGSEGV and SIGIOT, so the
shutdown may begin at any place of the loop or of itself, also between the `fork` of
a launch and its entry in the task table: such a child (`cut`) is one the table never had. It
asks the tasks to end, waits, sends SIGKILL once, looks once more and leaves who is then
still in the table ("Shutdown with %d tasks still running").

**BoardSession.** The front end is followed from the gate to `exec`, the board from
`FortyTwoSessionBootstrap` to `exit()`. A record of `users.data` is the set of changes it
contains, so that a lost change can be seen. A write through stdio is a buffer until
`fclose`, or until `exit()` flushes it. Doors inherit descriptor 3. The early exit for a
denied user leaves its directory behind; edits with `mbsetup`, which take no lock, are
left out. A signal in the last waits of `Good_Bye` (`bye.c:144-160`), where the handler is still
installed, would write the same record a second time under the lock; the model lets it end the
process. A private file that could not be written is absent, not empty. That the database
fails while the daemon closes the session is the matter of `AuthServer`.

**BinkpSession.** Each side is one process that alternates between its receive and
transmit state machines; the link carries frames in order and may break at any
moment, after which a new session starts from what is on disk. A workload fixes the
files of each side, the protocol version, the use of checksums, the number of sessions
and the faults that may happen. Compression, the escape of names, the NR option and
the handshake are left out. So are three branches: a file skipped because too few blocks are
free for it alone (`binkp.c:1253-1264`, `1287-1297`), a file that does not exist any more when
its turn comes (`1578-1580`, taken as sent), and errors of `read` and of the socket inside a
frame, which only appear as a broken link.

**HydraBatch.** Both halves of `hydra_batch`, transmitter and receiver, for both
sides; packets may be lost and timers may expire early. Workloads as above, with the
window and the role. A read error stays with the open file (`err`, the `ferror` of
`hydra.c:1030`): whatever position is asked for later, its end is not sent as that of a
complete file. `CarrierLost` stands for a lost carrier and for the two-minute guard
(BRAIN). Left out: adaptation of block sizes, zlib, option negotiation, and the new name
of a file that exists under the same name. An abort hangs up, which the peer sees as a lost carrier.

**MessageBase.** What a process does under the lock is one step; what it learned when
it opened the base is kept and may be stale. `bases` has one entry for each set of
files a base ever had, since a process that opened it before a pack works on in the
old ones. A lock may always time out. Only `HighReadMsg` is modelled, as `LastReadMsg` is
never read. `mbmsg` kills any set of messages. The exporter of `mbfido` (`Export`) marks a sent
message as deleted through `JAM_WriteHeader`, which does not count it (`extra`). A pack moves
the lastread pointers at once, in the file that is in use, and replaces header, index and
texts by a rename that comes later; `MbmsgDies` is a `mbmsg` that ends in between, which leaves
moved pointers over the old numbers (`cut`). `removed`, `known`, `emptied`, `raced` and `cut` are
history variables; the last three mark the situations in which the code gives
up its promises (see below). `raced` is a base that somebody had open, or opened, while it was being packed.

## What TLC checks

| Run | Instance | Shows |
| --- | --- | --- |
| `worker_pool` | 3 workers, capacity 3, 5 jobs | count, tokens, no stranded completion; refinement of `JobLedger`; under fairness every accepted job leaves and shutdown returns |
| `registration_limit` | 3 addresses, table of 2, 2 attempts, window 2, time to 4 | rate bound, exact retry time |
| `account_store` | 2 accounts, 2 sessions, 2 names, 2 passwords, 2 faults | tables agree, lookup finds one row, sessions have members, no late activation, refinement of `AccountLifecycle` |
| `server_login` | 2 slots used twice, 2 jobs, 1 account, administrative changes | a session goes only to the peer that earned it |
| `server_live` | 2 slots used twice, 2 accounts, 1 job, 1 fault, 1 crash or signal | open sessions and pending identities are held by exactly one live connection; every pending identity settles, every login is answered |
| `coordinator` | 2 coordinators, 3 failing calls, 1 kill or power loss, 1 foreign record | members are provisioned, markers are true, failures are reported |
| `client_registry` | 1 mailer, 2 users, 2 registrations | counts agree with the table, one user pages, a client that hangs is freed |
| `scheduler` | 2 processes, 1 TCP/IP node, 1 line node, 2 tasks, 1 stop | a call in the list has its task and back, one tosser; whoever outlives the shutdown was sent SIGKILL and is reported, or was out of `mbtask`'s sight |
| `binkp` | 5 workloads of up to 2 files and 3 sessions, 2 faults | what is disposed of has arrived, a good session has emptied the outbound, sessions end |
| `hydra` | 9 workloads of up to 3 files and 4 lost packets | what is disposed of has arrived, nothing is written twice or in the wrong place, a good batch is complete, batches end |
| `board` | 2 visits, 2 users, 2 signals, 1 kill | no update is lost, a session left in order is closed |
| `message_base` | 1 message, 2 posts by 2 programs, 1 reader, 1 run of `mbmsg` | the count adds up, numbers are places, new stays new, nothing lost |

Why these bounds are enough for what they are meant to reach. Three workers are
needed for a signal to meet the wrong one; five jobs over a capacity of three
let the queue fill, drain and fill again. Three addresses on two table entries
force the full table and a reclaimed entry behind a live one, and the time bound lets two
windows follow each other. Two accounts with one name make the released
name be taken again while a limit of one pending attempt is reached. Two slots
used twice let a completion return to a slot that belongs to another peer. Two
coordinators compete for the lock and one name; three faults let prepare, its
own rollback and the coordinator's second rollback fail in turn. Three processes on
two registrations fill the table and let a slot pass from one to another. Two
nodes of different kinds with two tasks let a call, the tosser and a stopped task
compete. A file of two or three blocks is enough to break, resume and repeat in the
middle; the code's retries of Hydra, 10, are 3, so that giving up is reached. Two
visits to two users cover two sessions of one user as well as a neighbour's
record. One message and two posts let two programs collide, a reader be behind, and
a pack move or remove the message the pointer is at.

Bounds are constants of the modules or workloads: `MaxFaults`, `MaxStops`, `MaxJobs`,
`MaxGeneration`, `MaxBatch`, `Capacity`, `MaxSignals`, `MaxKills`, `MaxPosts`, `MaxPacks`.

Deadlock is checked for `worker_pool`, `account_store` and `client_registry`. The other
specifications may stop because their bounds are used up or because everybody is
done, and say `CHECK_DEADLOCK FALSE`.

What the passing runs leave out on purpose. `board` has signals at every step but
three: while the logo is shown, and between a write to `users.data` and its `fclose` at
login and at logout, where an update really is lost (below). `binkp` has no failure of the
final move and no empty file (below). `hydra` has neither a file that is there already nor one that
cannot be opened together with early timers.
`NumbersArePlaces`, `NewStaysNew` and `NothingLost` speak of bases that never were without
messages, the last two of bases that nobody used while they were packed, and `NewStaysNew` of
those no run of `mbmsg` was cut off in. `CountsAddUp` counts what the exporter marked as deleted
apart, because the code does not take it off `ActiveMsgs`.

Symmetry is used only where no liveness property is checked. `scheduler` has a VIEW
besides: once `die()` has begun, states that differ only in variables nobody reads any more
are taken for one.

### Fairness

`WorkerPool`: every worker thread keeps running, the loop reads the eventfd
when it is readable and pops afterwards, and `pthread_join` returns once its thread
has ended. No fairness is assumed of submission or destruction.

`AuthServer`: the loop runs, so resets, deadlines, the health timer and waiting
completions are served; workers finish their jobs, which is `EveryJobLeaves` of
`WorkerPool`; the service manager restarts the daemon; time passes. Nothing is
assumed of peers. All of it is weak fairness. The database may still
fail `MaxFaults` times.

`ClientRegistry`: `mbtask` comes back to `reg_check`, the kernel delivers a kill, and
a client that says nothing lets its timer lapse; nothing else is assumed of clients.

`BinkpSession`: each side takes its step when it can. `HydraBatch`: the same for
transmitter and receiver, and strong fairness of the timers, which the code polls
in every turn of its loop; losses are bounded by the workload.

`BoardSession`: a board in `Good_Bye` keeps running, and the daemon notices a closed
connection. A user may stay for ever, and so may a door.

### Disagreements between documents and code

Each has a configuration of its own, which TLC refutes; they are kept beside the
runs and are not part of them.

* `MC_AuthServer_ghost.cfg`: README-B3 promises that no open ghost session is left when the
  success frame cannot be queued. The close is one best-effort call; if it
  fails, the session row stays open and nothing closes it later.
* `MC_AuthServer_closing.cfg`: FTAP-1 names a write timeout. A connection that is closing
  with unsent output has no deadline, so a peer that never reads keeps its slot.
* `MC_RegistrationCoordinator_unsynced.cfg`: README-B4 says the truncation is synchronized
  before the directory is removed. If `fdatasync` fails after `ftruncate`, the second
  rollback sees a file that is short already, does not sync and removes the tree.
* `MC_RegistrationCoordinator_definitive.cfg`: README-B4 calls an ERROR answer to `Commit`
  definitive. The daemon also answers ERROR when PostgreSQL committed and the reply
  was lost. The local data is kept in both cases, so `CommittedIsProvisioned` holds.
* `MC_RegistrationCoordinator_foreign.cfg`: README-B4 speaks of appending one record. The
  write goes to the offset of the scan, and a record that `mbnewusr` wrote in between is
  overwritten.
* `MC_TaskManager_mailin.cfg`: a comment in `mbtask.c` (1352-1358) says that after waiting for 30
  minutes `mbfido` is started anyway. Each new `mailin` semaphore starts the wait again
  (`taskstat.c:421`), so that it need never end.
* `MC_BinkpSession_several.cfg`: `binkp.h:40` and `docs/changelogs/ChangeLog_2000:165` describe resumed files. A GET
  for the first of two resumed files that comes while the second is being sent
  abandons the second; both sides then wait for ever, since the timer is looked at only when there is
  no room for output (`binkp.c:1018`).
* `MC_BinkpSession_empty.cfg`: the comment at `binkp.c:1815` takes a batch of fewer than three
  messages for one in which nothing is sent any more. The count relies on the M_NUL TRF
  of the list, which is not sent for a list without a byte (`1556`): an empty file that is
  locked in the first batch and in the second is left, in a session that ends well.
* `MC_BinkpSession_changed.cfg`: without checksums, a partial file is continued although the
  sender replaced the original: `bopenfile.c` looks at neither date nor size, and what is
  received is half old, half new.
* `MC_HydraBatch_here.cfg`: `docs/changelogs/ChangeLog_1999:1057` says Hydra skips files already present. If FINFO is
  repeated too early, the second answer -1 is taken for the next file, which is
  disposed of without being sent (`hydra.c:964`).
* `MC_BoardSession_hangup.cfg`: the comment at `bye.c:99` says the copy is written back "to the selected
  users.data record while the per-user lock is still held". The signal handlers are
  installed before `user()` selects one; a carrier lost in between makes `Good_Bye` work on record 0, which is another user's.
* `MC_MessageBase_emptied.cfg`: `html/misc/jam.html:461` says the record number determines a
  message's number. When all messages of a base have been deleted and it is not yet
  packed, the next one gets number 1 again; lastread pointers then hide it.

`MC_AuthServer_registration.cfg` is a larger instance that passes, with two sessions and
two jobs.

More observations. `jam.html:519-531` asks that data read before the lock is not used
and that maintenance opens a base exclusively; `JAM_Highest` uses the count read before
the lock, and `JAM_Pack` gives up the lock before it renames, so that `script/maint`, which
runs while the board is open, can lose a message posted in that moment or renumber
messages under a reader. The pointers a pack moves are written into the `.jlr` in use
(`jammsg.c:719`, `756`) before the new files get their names (`889-902`): a `mbmsg` ended by a
signal in between leaves new pointers over old numbers for good. The exporter marks `KillSent`
mail as deleted without a decrement (`scan.c:928`, `1102`, `jammsg.c:1530`), so that `ActiveMsgs` is too
high until a pack that leaves messages corrects it (`786-798`). A child of `mbtask` that was
forked when a signal handled by `die()` came is never asked to end. A board ended by a signal between a write to `users.data` and
its `fclose` flushes that buffer in `exit()`, after the lock of the user is released. Hydra: a
repeated -2 can make the receiver take a later file under an earlier name, and with a
window a file resumed beyond it waits until the batch is given up.

In the coordinator, no document promises otherwise: a
registration that appends between another's `Commit` and its finalize leaves
that one's marker at `prepared`, and a torn record at the end of `users.data`
makes every later registration fail until it is repaired.

## What is proved

TLAPS checks the following for every value of the constants that satisfies the
named assumption of the module (`PoolAssumption`, `StoreAssumption`, `ServerAssumption`,
`LimitAssumption`, `CoordinatorAssumption`, `RegistryAssumption`, `TaskAssumption`,
`MessageAssumption`, `BoardAssumption`, `BinkpAssumption`, `HydraAssumption`,
`WorkloadAssumption`); these only say that counts are naturals, that some sets are finite
or disjoint, and that a limit which the code checks at start is not zero. The bounds of
the runs (faults, kills, posts, ...) are any naturals.

Every safety theorem has the same shape: an inductive invariant holds at the beginning,
one lemma per action shows that it stays, and the property follows from it. The
invariants were run through TLC before they were proved.

| Theorem | Property of a run | Inductive invariant |
| --- | --- | --- |
| `AuthdLimits_proofs`: `TypeCorrect`, `CountIsExact`, `TokensAreBacked`, `NothingStranded` | types, `Conservation`, `TokensBacked`, `NoStrandedCompletion` | `TokenAccount`, `Drained` and more |
| `AuthdLimits_proofs`: `PoolImplementsLedger` | `LedgerSpec` | `LedgerInv` |
| `AuthServer_proofs`: `StoreTypeCorrect`, `TablesAgree`, `LookupFindsOne`, `MembersStay`, `PendingIsBounded`, `ExpiredStaysOut` | types, `Coherent`, `LookupUnambiguous`, `SessionsHaveMembers`, `NoLateActivation` | `StoreInv` |
| `AuthServer_proofs`: `StoreImplementsLifecycle` | `LifecycleSpec` | `StoreInv` |
| `AuthServer_proofs`: `ServerTypes`, `SessionsStayBound`, `AttemptsStayBound`, `SessionsAreEarned`, `DaemonKeepsTables` | types, `SessionsBound`, `AttemptsBound`, `SessionEarned` | `ServerInv` |
| `RegistrationCoordinator_proofs`: `LockHeldWhileWorking`, `MembersAreProvisioned`, `MarkersAreTruthful`, `ResidueIsReported` | types, `CommittedIsProvisioned`, `MarkerTruthful`, `NoSilentResidue` | `CoordinatorInv` |
| `AuthdLimits_proofs`: `RateIsBounded`, `RefusalsAreExact` | `RateBound`, `RetryIsExact` | `LimitInv` |
| `Sessions_proofs`: `RegisteredOnce`, `CountsFollowTable`, `OneUserPages` | types, `CountsAgree`, `OnePager` | `RegistryInv` |
| `TaskManager_proofs`: `TypesHold`, `MarksHaveMailers`, `OneTosserRuns`, `NothingOverlooked` | types, `CallsTracked`, `OneTosser`, `NoneOverlooked` | `TaskInv` |
| `MessageBase_proofs`: `CountsAlwaysAddUp`, `NumbersStayPlaces`, `NewMessagesStayNew`, `MessagesAreKept` | `CountsAddUp`, `NumbersArePlaces`, `NewStaysNew`, `NothingLost` | `MessageInv` |
| `Sessions_proofs`: `BoardInvariant`, `BoardNoLostUpdate`, `BoardOwnRecordOnly` (signals at settled steps) | `NoLostUpdate` | `BoardInv` |
| `BinkpSession_proofs`: `BinkpInvariant`, `BinkpGoodIsComplete` (no file is empty) | `GoodIsComplete` | `CoreInv` |
| `BinkpSession_proofs`: `BinkpDelivered` | `Delivered` | `DeliveredInv` |
| `HydraBatch_proofs`: `HydraInvariant`, `HydraDelivered`, `HydraIntact`, `HydraGoodIsComplete` | `Delivered`, `Intact`, `GoodIsComplete` | `Inv` |

Why the properties are not inductive, and what carries them:

**Worker pool.** A worker that has pushed a completion and not yet raised its token has
to be counted, a worker holds a job exactly while it executes, and `destroy` detaches
the pending queue in the critical section in which it reduces the count. The
refinement needs besides that no job is in two places, so that each critical section
is one step of the ledger or none. Cardinalities come from `FiniteSetTheorems`.

**Account database.** Every call is reduced to three facts: a row is altered in one of
five ways or is created under a name nobody has while there is room (`RowsStep`), and a
session is opened for an account that is then active, or closed (`SessionsStep`).
`StoreInv` joins types, `Coherent`, `NamesUnique`, `SessionsHaveMembers` and `PendingBounded`;
a binding exists exactly for names that count as taken, and a pending status means a
pending attempt. For the refinement one lemma per call says which abstract step it
is; a session nobody opened has no owner.

**Daemon.** A login, a registration and a session of one connection exclude each other,
also while it is closing, so that nothing is overwritten that `client_reset` would have
to release. A password job carries what the peer of its connection typed last, unless
the connection is gone, and what a login looked up is an account of the name typed.
`SessionEarned`, an action property, follows from this for the two steps that open
sessions. All steps are steps of the database as well, so `StoreInv` carries over.

**Coordinator.** What matters is where a record can be, seen from the place its
coordinator is at. The one with the lock finds only foreign records behind
`original_size` until it has written its own, and cuts only what it found to be its own;
so nobody ever cuts the record of a member. The same is said of the disk, which lags
behind by what is not yet synchronized.

**Limiter.** Allowed attempts of an address fall into runs, one per table entry the
address had, and only the last run has an entry. The invariant says that `Attempts` attempts
before the start of a run reach back a whole window. The exact retry time is a fact
about two scans of the table, the second of them at a later time.

**Client registry.** The counts are right only if no process is registered twice and
none says twice that it is a TCP/IP session; both depend on how far its dialogue has come.

**Task manager.** The task table and the operating system's processes agree: a slot names
a child of its own, every child that was not taken for finished has a slot, and a call
that is marked names the slot of its mailer. Compacting the table keeps all three. For the
shutdown: before it begins no child was cut off from its entry, at most one ever is
(`CutOnce`), and from the last check on all tasks in the table have been sent SIGKILL (`AllKilled`).

**Message base.** Every base is made of messages with different ids and its count is that of
the messages left and of those only the exporter knows of (`Whole`). As long as no base ran empty, numbers are places and whoever has a base
open knows that there are messages (`Numbered`). As long as none was packed in use either,
what a session remembers is true of the base it has open (`Remembered`), and nobody has the base open
while packed files wait for their names, which hold just the messages left (`Waiting`). Pointers
cover what they covered (`Pointed`) in the base that counts: the packed files from the
moment the pointers were moved, unless `mbmsg` was cut off (`Awaited`). What a pack does to
numbers and pointers is proved for a base of
any length: after each turn of the loop the messages so far are kept in order (`Kept`) and
a pointer that lay among them is at the last of its messages that is left (`Moved`).

**Board.** A board that has the lock of a user has read the record after the last write
of it; one that is past its write has nothing left in a buffer, unless it is at the step
between `fwrite` and `fclose`; and only the board with the lock is at a step that writes.
`NoLostUpdate` is a property of steps: no step takes a change out of a record. The theorems
assume that signals come at settled steps (`SignalAt \subseteq SettledSteps`), that is not
while the logo is shown nor between a write and its `fclose`: there the code does lose
an update (above), and the run leaves out the same steps.

**Binkp: a good session.** Whether another batch follows is decided from a count. Every
end of a batch is one of the messages counted, and so is the M_NUL that goes out with a
list of files (`Tally`), if none of the files is empty (`NoEmptyFile`, the hypothesis of the
theorem; without it the code does leave a file, above). A side that has counted nothing but the two ends had nothing to
send when the batch began, and nothing is added while the session lasts.

**Binkp: delivery.** `Flow` relates, for each direction, the sender, the frames under way,
the receiver and what it has in `tmp/` and in the inbound:

* blocks under way follow each other and the block the receiver has got to (`Forward`); a
  file is announced from the start or from where the receiver stopped, and the receiver's
  position is the length of the file (`Receiving`), so that the block that is appended is
  the next one;
* an answer under way, or in the queue, is about a file the sender waits for; a GOT means
  that the inbound has the file as it was sent, a GET names the length of what is there
  (`Backward`);
* no file is asked for and answered at the same time (`Turned`), and while the link stands
  the last frame is where the sender is (`Pace`). After a break the pace is lost, and only
  what is stored (`Stored`) carries over to the next session: what is in `tmp/` is shorter
  than the file, and a beginning of it if there are no checksums to find out.

Every step is shown to keep `Flow` in both directions at once (`Duplex`), since a frame that
carries blocks one way may carry an answer the other way. That what a queue of messages
does to the list is the sum of its messages is proved by induction over the queue (`Progress`).

`BinkpDelivered` has a precondition, `Resumable`: a side has at most one file of more than one
block, the two sides send no file of the same name, the final move does not fail, and
checksums are used if a waiting file may be replaced. The last two are the faults with which
the code breaks its promise (above). The first is needed: the receiver takes the handle it has
open for that of the announced file when the offset happens to be the number of bytes it
found when it opened it (`binkp.c:1228`), and with two files of two blocks each and three sessions
TLC finds a behaviour in which a file is disposed of that did not arrive. Workloads without
several long files satisfy the precondition; those with several stay with TLC.

**Hydra.** Nothing but order tells to which file a packet belongs: EOF, EOFACK, RPOS and FINFOACK
carry a position and no name. `Way` relates, for each direction, the sender, the packets
towards the receiver, the receiver, and the packets back. Its parts follow the stages of
the sender:

* what is on its way belongs to the file announced before it, or to the one being received
  (`Stream`), and the receiver's position is the length of what it has written, or the file
  is refused (`Writer`);
* before the first offer nothing of this direction is under way (`Beginning`);
* while a file is offered (`Offering`), either the receiver has opened it, and every answer under
  way names its position, or it has not, and there is at most one answer, and none
  while the offer is still under way: so -1 and -2 are about this file;
* while a file is sent (`Transfer`), the two sides are at the same file, an EOF under way is
  its length or -2, an EOFACK means that the receiver has closed it, and -2 means that it is
  refused. After EOFACK no request for a position follows, so that none is taken for one
  about the next file;
* a file leaves the list when it is sent, refused or cannot be opened, and the receiver
  is done only when the list is empty (`Listed`, `Ending`).

Every part speaks only of which packets are on the line and which is before which
(`On`, `Before`), so losing a packet keeps all of it. `Ends` adds the end of the batch: an END
comes from a side whose receiver is done. `Inv` joins types, `Ends` and, for orderly
batches, `Way` in both directions, `Delivered`, and that what is written is a beginning of the file.

The three theorems speak of batches with `Orderly(work)`: each file is listed once, and
if timers may expire although the answer is on its way, no file is refused when it is
offered, neither because it is there already nor because it cannot be opened. This is where the code
breaks its promise (`MC_HydraBatch_here.cfg`): an offer that is repeated too early is answered
twice, and the second -1 or -2 is taken for the answer to the next offer. Losses, retries,
read, write and close errors, resumed files and windows are not restricted; with timers that
expire only when nothing is under way, refusals are not either. All workloads of the `hydra`
run are orderly, and TLC found `Inv` true in all of their states.

The loop of `JAM_Pack` needs induction over the naturals, the limiter and the task table a
least free slot, Hydra the first file that can be opened. The library's induction theorems take an operator as parameter, which
the provers cannot instantiate; the proofs use instead that a set of naturals has a
least member (`WFMin`, `NatLessThanWellFounded`).

Only model-checked:

* liveness under fairness (`EveryJobLeaves`, `ShutdownReturns`, `RegistrationSettles`,
  `LoginAnswered`, `SilentIsFreed`, `SessionEnds`, `BatchEnds`, `SessionCloses`), which is out of
  the prover's reach;
* `HydraBatch` for batches that are not orderly, in which `Delivered` fails;
* `Delivered` of `BinkpSession` for workloads that are not `Resumable`, for which it fails, the
  wait of two resumed files, and `GoodIsComplete` with empty files, for which it fails.

## What is not modelled

* The layout of FTAP frames and records, and their parsing: pure functions with
  tests of their own. What they decide is kept as a guard or as a possible failure.
* Argon2id itself, PostgreSQL's isolation (each call is atomic, as its
  transaction and row locks make it), option parsing, terminal editing, peer
  credentials.
* `legacy_registration_marker.c`: only tests call it.
* Chat (`taskibc.c`, `taskchat.c`): links over datagrams whose tables converge by timers.
  Neither code nor documents say what holds meanwhile, so there is nothing to check them
  against.
* Of `mbcico`: the handshakes (EMSI, FTS-1, binkp), Zmodem, modem control.
* Of the message bases: reply links (`Msg_Link`), texts and flags, private messages, the
  purge of lastread records of deleted users, a crash inside `JAM_AddMsg`. Of a pack, the pointers
  of GoldED (`jammsg.c:826-841`), the way out for a header that cannot be read (`680-693`), and
  the moments between the four pairs of `unlink` and `rename` (`887-902`), in which the files of a
  base belong to two generations: they are one step.
* Of MBSE otherwise: packet and file tossing, file areas, the offline reader, the
  full-screen editor, the news server's commands, monitor, setup, statistics and the
  Unix helpers. They are sequential, and their correctness lies in file formats and
  screens. They are most of the repository's lines, which is why the mapped lines are a
  small part of it: `mbsetup`, `mbsebbs` and `mbfido` alone are more than half.

## Plan

Done: the modules above, and the proofs of their safety properties.

Next:

1. The handle of `binkp.c:1228` as a run of its own, should the code ever compare the name.
2. The chat of `mbtask`, once its documents say what the tables of two servers have in common.
3. Of the mailer, the handshakes that come before a batch (EMSI, binkp).
