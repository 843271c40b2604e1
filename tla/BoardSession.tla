---------------------------- MODULE BoardSession ----------------------------
(***************************************************************************)
(* The way of a user from the front end into the board and out of it:      *)
(* fortytwo_login.c authenticates and hands its FTAP connection over as    *)
(* descriptor 3; mbsebbs adopts it (fortytwo_session.c), takes the lock of *)
(* the user, copies the user's record of users.data into a private file    *)
(* (exitinfo.c), changes the copy, and writes it back on the way out       *)
(* (bye.c), also when a signal ends the session (timeout.c).               *)
(*                                                                         *)
(* A record is the set of the changes that were made to it.  stdio keeps a *)
(* written record in a buffer until the file is closed; a process that a   *)
(* signal takes away from there keeps the buffer until exit() flushes it.  *)
(***************************************************************************)
EXTENDS Naturals, Sequences, FiniteSets

CONSTANTS Procs,      \* processes, one for each visit
          Users,      \* records of users.data
          Record0,    \* the first of them
          Guests,     \* users whose record is not written back
          Nobody,     \* no user, no process
          SignalAt,   \* steps of the board at which a signal may arrive
          MaxSignals, \* bound on the signals a board handles
          MaxKills    \* bound on the processes that are killed

ASSUME BoardAssumption ==
    /\ Record0 \in Users /\ Guests \subseteq Users
    /\ Nobody \notin Users \cup Procs
    /\ MaxSignals \in Nat /\ MaxKills \in Nat

VARIABLES pc,      \* pc[p]: step that process p takes next
          acc,     \* acc[p]: user that authenticated, legacy_name of the session
          grecno,  \* grecno[p]: user whose record is selected
          users,   \* users.data
          priv,    \* priv[p]: exitinfo in the private directory of the session
          usr,     \* usr[p]: record in the memory of the board
          buf,     \* buf[p]: unflushed writes to users.data, the newest first
          dirs,    \* processes whose session directory exists
          lock,    \* lock[u]: process that holds the lock of the user
          sess,    \* sess[p]: session in the daemon
          asked,   \* processes that sent SESSION_CLOSE
          fd,      \* fd[p]: who holds the connection, the process and its door
          killed, sigs

record == <<users, priv, usr, buf, grecno>>
conn   == <<sess, asked, fd>>
vars   == <<pc, acc, record, dirs, lock, conn, killed, sigs>>

Absent == {"absent"}  \* a private file that does not exist

Empty  == {"empty"}   \* one that was truncated and not yet written

Init ==
    /\ pc = [p \in Procs |-> "gate"]
    /\ acc = [p \in Procs |-> Nobody]
    /\ grecno = [p \in Procs |-> Record0]
    /\ users = [u \in Users |-> {}]
    /\ priv = [p \in Procs |-> Absent]
    /\ usr = [p \in Procs |-> {}]
    /\ buf = [p \in Procs |-> <<>>]
    /\ dirs = {}
    /\ lock = [u \in Users |-> Nobody]
    /\ sess = [p \in Procs |-> "none"]
    /\ asked = {}
    /\ fd = [p \in Procs |-> {}]
    /\ killed = {}
    /\ sigs = [p \in Procs |-> 0]

Goto(p, from, to) == pc[p] = from /\ pc' = [pc EXCEPT ![p] = to]

Unlocked(p) == [u \in Users |-> IF lock[u] = p THEN Nobody ELSE lock[u]]

\* What the kernel does when the process ends: its descriptor and its lock go.
Vanish(p) ==
    /\ fd' = [fd EXCEPT ![p] = @ \ {"self"}]
    /\ lock' = Unlocked(p)

---------------------------------------------------------------------------
\* fortytwo-login: run_login.

\* The gate of two escapes (telnet), the prompts, the connection with its HELLO.
Ask(p) ==
    /\ \/ Goto(p, "gate", "prompt") \/ Goto(p, "prompt", "connect")
    /\ UNCHANGED <<acc, record, dirs, lock, conn, killed, sigs>>

Connect(p) ==
    /\ Goto(p, "connect", "auth")
    /\ fd' = [fd EXCEPT ![p] = {"self"}]
    /\ UNCHANGED <<acc, record, dirs, lock, sess, asked, killed, sigs>>

\* A password login, or a registration that was committed.
Authenticate(p, u) ==
    /\ Goto(p, "auth", "bound")
    /\ acc' = [acc EXCEPT ![p] = u]
    /\ sess' = [sess EXCEPT ![p] = "open"]
    /\ UNCHANGED <<record, dirs, lock, asked, fd, killed, sigs>>

\* The user or the daemon gives up before there is a session.
NoLogin(p) ==
    /\ pc[p] \in {"gate", "prompt", "connect", "auth"}
    /\ pc' = [pc EXCEPT ![p] = "ended"]
    /\ Vanish(p)
    /\ UNCHANGED <<acc, record, dirs, sess, asked, killed, sigs>>

\* Descriptor 3, the environment, execve.
HandOver(p) ==
    /\ Goto(p, "bound", "boot")
    /\ UNCHANGED <<acc, record, dirs, lock, conn, killed, sigs>>

HandOverFails(p) ==
    /\ Goto(p, "bound", "ended")
    /\ asked' = asked \cup {p}
    /\ Vanish(p)
    /\ UNCHANGED <<acc, record, dirs, sess, killed, sigs>>

---------------------------------------------------------------------------
\* mbsebbs: start.

FortyTwoSessionBootstrap(p) ==
    /\ Goto(p, "boot", "booted")
    /\ UNCHANGED <<acc, record, dirs, lock, conn, killed, sigs>>

\* No descriptor, no context, no valid name; or FindMBSE gives up.
BootstrapFails(p) ==
    /\ pc[p] \in {"boot", "booted"}
    /\ pc' = [pc EXCEPT ![p] = "ended"]
    /\ Vanish(p)
    /\ UNCHANGED <<acc, record, dirs, sess, asked, killed, sigs>>

\* Mutant: the lock of another session is not respected.
PrepareUnlocked(p) ==
    /\ Goto(p, "booted", "startup")
    /\ lock' = [lock EXCEPT ![acc[p]] = p]
    /\ dirs' = dirs \cup {p}
    /\ UNCHANGED <<acc, record, conn, killed, sigs>>

FortyTwoSessionPrepare(p) ==
    /\ Goto(p, "booted", "startup")
    /\ lock[acc[p]] = Nobody
    /\ lock' = [lock EXCEPT ![acc[p]] = p]
    /\ dirs' = dirs \cup {p}
    /\ UNCHANGED <<acc, record, conn, killed, sigs>>

\* The lock is held, or something else fails: duplicate_login or bootstrap_failed.
PrepareFails(p) ==
    /\ Goto(p, "booted", "close")
    /\ UNCHANGED <<acc, record, dirs, lock, conn, killed, sigs>>

TrapSignals(p) ==
    /\ Goto(p, "startup", "logo")
    /\ UNCHANGED <<acc, record, dirs, lock, conn, killed, sigs>>

\* The board is closed, the port is not allowed, there is no home directory.
Quick_Bye(p) ==
    /\ pc[p] \in {"startup", "logo"}
    /\ pc' = [pc EXCEPT ![p] = "close"]
    /\ UNCHANGED <<acc, record, dirs, lock, conn, killed, sigs>>

\* user(): find and read the record.
SelectUser(p) ==
    /\ Goto(p, "logo", "login")
    /\ grecno' = [grecno EXCEPT ![p] = acc[p]]
    /\ usr' = [usr EXCEPT ![p] = users[acc[p]]]
    /\ UNCHANGED <<acc, users, priv, buf, dirs, lock, conn, killed, sigs>>

\* The record is missing, deleted or locked out: ExitClient, and no SESSION_CLOSE.
Denied(p) ==
    /\ Goto(p, "logo", "ended")
    /\ Vanish(p)
    /\ UNCHANGED <<acc, record, dirs, sess, asked, killed, sigs>>

\* The calls and the time of this login; fwrite.
UpdateLogin(p) ==
    /\ Goto(p, "login", "loginflush")
    /\ usr' = [usr EXCEPT ![p] = @ \cup {<<p, "login">>}]
    /\ buf' = [buf EXCEPT ![p] = <<<<grecno[p], usr'[p]>>>> \o @]
    /\ UNCHANGED <<acc, grecno, users, priv, dirs, lock, conn, killed, sigs>>

\* fclose: the newest write reaches the file.
Flush(p) ==
    /\ users' = [users EXCEPT ![Head(buf[p])[1]] = Head(buf[p])[2]]
    /\ buf' = [buf EXCEPT ![p] = Tail(@)]

CloseLogin(p) ==
    /\ Goto(p, "loginflush", "init")
    /\ Flush(p)
    /\ UNCHANGED <<acc, grecno, priv, usr, dirs, lock, conn, killed, sigs>>

\* Read the record again and write the private file; without it, Good_Bye.  A file that was
\* created and could not be written is empty, which Good_Bye treats like one that is absent.
InitExitinfo(p) ==
    /\ \/ /\ Goto(p, "init", "work")
          /\ usr' = [usr EXCEPT ![p] = users[grecno[p]]]
          /\ priv' = [priv EXCEPT ![p] = usr'[p]]
       \/ /\ Goto(p, "init", "bye")
          /\ UNCHANGED <<priv, usr>>
    /\ UNCHANGED <<acc, grecno, users, buf, dirs, lock, conn, killed, sigs>>

---------------------------------------------------------------------------
\* mbsebbs: the session.  Every change of the user's settings reads the private file,
\* changes the copy and writes it; fopen truncates the file first.

Change(p) ==
    /\ Goto(p, "work", "rewrite") /\ <<p, "change">> \notin priv[p]
    /\ usr' = [usr EXCEPT ![p] = priv[p] \cup {<<p, "change">>}]
    /\ priv' = [priv EXCEPT ![p] = Empty]
    /\ UNCHANGED <<acc, grecno, users, buf, dirs, lock, conn, killed, sigs>>

WriteExitinfo(p) ==
    /\ Goto(p, "rewrite", "work")
    /\ priv' = [priv EXCEPT ![p] = usr[p]]
    /\ UNCHANGED <<acc, grecno, users, usr, buf, dirs, lock, conn, killed, sigs>>

\* A door inherits descriptor 3.  The board waits for it, but a door that a signal of the
\* board does not end may outlive the board.
Door(p) ==
    /\ Goto(p, "work", "door")
    /\ fd' = [fd EXCEPT ![p] = @ \cup {"door"}]
    /\ UNCHANGED <<acc, record, dirs, lock, sess, asked, killed, sigs>>

DoorEnds(p) ==
    /\ "door" \in fd[p]
    /\ fd' = [fd EXCEPT ![p] = @ \ {"door"}]
    /\ pc' = [pc EXCEPT ![p] = IF @ = "door" THEN "work" ELSE @]
    /\ UNCHANGED <<acc, record, dirs, lock, sess, asked, killed, sigs>>

Logout(p) ==
    /\ Goto(p, "work", "bye")
    /\ UNCHANGED <<acc, record, dirs, lock, conn, killed, sigs>>

\* SIGHUP, SIGTERM and the others that die() handles, and the idle timer.  The handler
\* never returns; a write that was not flushed stays in its buffer.
die(p) ==
    /\ pc[p] \in SignalAt /\ sigs[p] < MaxSignals
    /\ pc' = [pc EXCEPT ![p] = "bye"]
    /\ sigs' = [sigs EXCEPT ![p] = @ + 1]
    /\ UNCHANGED <<acc, record, dirs, lock, conn, killed>>

---------------------------------------------------------------------------
\* mbsebbs: Good_Bye.

\* SaveLastCallers calls ReadExitinfo, which makes the private file when there is none.
SaveLastCallers(p) ==
    /\ Goto(p, "bye", "commit")
    /\ IF priv[p] = Absent
       THEN /\ usr' = [usr EXCEPT ![p] = users[grecno[p]]]
            /\ priv' = [priv EXCEPT ![p] = usr'[p]]
       ELSE UNCHANGED <<usr, priv>>
    /\ UNCHANGED <<acc, grecno, users, buf, dirs, lock, conn, killed, sigs>>

\* The private copy, with the areas last visited, is written to the selected record.
CommitRecord(p) ==
    /\ priv[p] # Empty /\ grecno[p] \notin Guests
    /\ Goto(p, "commit", "commitflush")
    /\ usr' = [usr EXCEPT ![p] = priv[p] \cup {<<p, "areas">>}]
    /\ buf' = [buf EXCEPT ![p] = <<<<grecno[p], usr'[p]>>>> \o @]
    /\ UNCHANGED <<acc, grecno, users, priv, dirs, lock, conn, killed, sigs>>

CommitNothing(p) ==
    /\ priv[p] = Empty \/ grecno[p] \in Guests
    /\ Goto(p, "commit", "hangup")
    /\ UNCHANGED <<acc, record, dirs, lock, conn, killed, sigs>>

CloseRecord(p) ==
    /\ Goto(p, "commitflush", "hangup")
    /\ Flush(p)
    /\ UNCHANGED <<acc, grecno, priv, usr, dirs, lock, conn, killed, sigs>>

\* Waiting, hanging up and removing scratch files.  A signal before the handlers are reset
\* (bye.c:162) would start Good_Bye again, which writes the same record once more under the
\* lock; the model has the default action from here on.
Hangup(p) ==
    /\ Goto(p, "hangup", "close")
    /\ UNCHANGED <<acc, record, dirs, lock, conn, killed, sigs>>

\* Mutant: the connection is closed without a word.
CloseSilently(p) ==
    /\ Goto(p, "close", "exit")
    /\ fd' = [fd EXCEPT ![p] = @ \ {"self"}]
    /\ dirs' = dirs \ {p}
    /\ priv' = [priv EXCEPT ![p] = IF p \in dirs THEN Absent ELSE @]
    /\ lock' = Unlocked(p)
    /\ UNCHANGED <<acc, users, usr, buf, grecno, sess, asked, killed, sigs>>

\* SESSION_CLOSE, then the private file and its directory, then the lock.
FortyTwoSessionClose(p) ==
    /\ Goto(p, "close", "exit")
    /\ asked' = asked \cup {p}
    /\ fd' = [fd EXCEPT ![p] = @ \ {"self"}]
    /\ dirs' = dirs \ {p}
    /\ priv' = [priv EXCEPT ![p] = IF p \in dirs THEN Absent ELSE @]
    /\ lock' = Unlocked(p)
    /\ UNCHANGED <<acc, users, usr, buf, grecno, sess, killed, sigs>>

\* The file once the writes w are flushed one after the other: a record is what the last
\* write to it says.
Flushed(w) ==
    LET writes(u) == {i \in DOMAIN w : w[i][1] = u}
        last(u)   == CHOOSE i \in writes(u) : \A j \in writes(u) : j <= i
    IN  [u \in Users |-> IF writes(u) = {} THEN users[u] ELSE w[last(u)][2]]

\* exit() flushes what is left in the buffers.
Exit(p) ==
    /\ Goto(p, "exit", "ended")
    /\ users' = Flushed(buf[p])
    /\ buf' = [buf EXCEPT ![p] = <<>>]
    /\ UNCHANGED <<acc, grecno, priv, usr, dirs, lock, conn, killed, sigs>>

---------------------------------------------------------------------------
\* The daemon and the kernel.

\* SESSION_CLOSE arrives, or the last descriptor of the connection is closed.  A database
\* that fails meanwhile is the matter of AuthServer (SessionClose, ClientReset).
DaemonCloses(p) ==
    /\ sess[p] = "open" /\ (p \in asked \/ fd[p] = {})
    /\ sess' = [sess EXCEPT ![p] = "closed"]
    /\ UNCHANGED <<pc, acc, record, dirs, lock, asked, fd, killed, sigs>>

\* SIGKILL, or a signal with its default action.
Kill(p) ==
    /\ pc[p] # "ended" /\ Cardinality(killed) < MaxKills
    /\ pc' = [pc EXCEPT ![p] = "ended"]
    /\ killed' = killed \cup {p}
    /\ buf' = [buf EXCEPT ![p] = <<>>]
    /\ Vanish(p)
    /\ UNCHANGED <<acc, users, priv, usr, grecno, dirs, sess, asked, sigs>>

FrontEnd(p) ==
    \/ Ask(p) \/ Connect(p) \/ NoLogin(p) \/ HandOver(p) \/ HandOverFails(p)
    \/ \E u \in Users : Authenticate(p, u)

Entering(p) ==
    \/ FortyTwoSessionBootstrap(p) \/ BootstrapFails(p)
    \/ FortyTwoSessionPrepare(p) \/ PrepareFails(p)
    \/ TrapSignals(p) \/ Quick_Bye(p) \/ SelectUser(p) \/ Denied(p)
    \/ UpdateLogin(p) \/ CloseLogin(p) \/ InitExitinfo(p)

Working(p) == Change(p) \/ WriteExitinfo(p) \/ Door(p) \/ Logout(p)

Good_Bye(p) ==
    \/ SaveLastCallers(p) \/ CommitRecord(p) \/ CommitNothing(p) \/ CloseRecord(p)
    \/ Hangup(p) \/ FortyTwoSessionClose(p) \/ Exit(p)

Next ==
    \E p \in Procs :
        \/ FrontEnd(p) \/ Entering(p) \/ Working(p) \/ Good_Bye(p)
        \/ die(p) \/ DoorEnds(p) \/ DaemonCloses(p) \/ Kill(p)

Spec == Init /\ [][Next]_vars

(***************************************************************************)
(* Fairness: a board that is on its way out goes on, and the daemon reads  *)
(* its connections.  Users and doors promise nothing.                      *)
(***************************************************************************)
FairSpec ==
    /\ Spec
    /\ \A p \in Procs : WF_vars(Good_Bye(p)) /\ WF_vars(DaemonCloses(p))

(***************************************************************************)
(* Properties.  They are about signals that arrive once the record is      *)
(* selected and while no write is in a buffer.                             *)
(***************************************************************************)

SettledSteps == {"login", "init", "work", "rewrite", "door", "bye", "commit"}

\* A change of a user's record that reached users.data is never undone by another session
\* that started from an older copy (the lock of FortyTwoSessionPrepare around the read in
\* user() and InitExitinfo and the write in Good_Bye).
NoLostUpdate == [][\A u \in Users : users[u] \subseteq users'[u]]_vars

\* A session that is left in order ends in the daemon, and its user may come again, also
\* when a door that has inherited the connection still runs (FortyTwoSessionClose).
SessionCloses ==
    \A p \in Procs :
        pc[p] \in {"bye", "close"} ~>
            p \in killed \/ (sess[p] = "closed" /\ \A u \in Users : lock[u] # p)

\* A board changes the record of its own user alone: the record it selects in user() and
\* writes in Good_Bye is the one whose lock it holds.
OwnRecordOnly == \A u \in Users : \A x \in users[u] : acc[x[1]] = u
=============================================================================
