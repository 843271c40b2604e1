--------------------------- MODULE ClientRegistry ---------------------------
(***************************************************************************)
(* The table of connected programs that mbtask keeps (mbtask/taskregs.c).  *)
(* Every program of the board announces itself with its pid, reports what  *)
(* it does and withdraws; a program that dies or falls silent is found by  *)
(* reg_check, which mbtask calls on every turn of its loop.                *)
(*                                                                         *)
(* The operating system is part of the state: proc is the process table.   *)
(* A child of mbtask that ended stays a zombie until mbtask reaps it, and  *)
(* kill(pid, 0) still succeeds for it.                                     *)
(*                                                                         *)
(* Time is abstracted: a client is overdue once altime seconds passed      *)
(* since its last command.  It was warned when altime is the ten seconds   *)
(* that reg_check leaves it after a signal.                                *)
(***************************************************************************)
EXTENDS Naturals, FiniteSets, FiniteSetsExt

CONSTANTS Pids,       \* process ids the system may give
          Mailers,    \* those that are given to mailers; the others go to users' sessions
          MAXCLIENT   \* slots for clients; slot 0 of the code is mbtask itself

ASSUME RegistryAssumption == MAXCLIENT \in Nat /\ Mailers \subseteq Pids

VARIABLES proc,       \* process table of the operating system
          reginfo,    \* reginfo[i]: client in slot i
          mailers,    \* registered mailers
          ipmailers,  \* registered TCP/IP sessions
          clients,    \* status.clients, which counts mbtask too
          sysop       \* sysop_present

counts == <<mailers, ipmailers, clients>>

registry_vars == <<proc, reginfo, counts, sysop>>

Slots == 1..MAXCLIENT

Programs == {"mbcico", "mbsebbs"}

\* conn is how far the program's own dialogue with mbtask has come.
Process == [st : {"run", "hung", "zombie"}, prg : Programs, child : BOOLEAN,
            conn : {"new", "in", "tcp", "out"}]

NoProc == [st |-> "none", prg |-> "none", child |-> FALSE, conn |-> "new"]

\* paging and haspaged of the code are one field: the first hides the second.
Client == [pid : Pids, prg : Programs, tcp : BOOLEAN, warned : BOOLEAN,
           overdue : BOOLEAN, page : {"no", "paging", "paged"}]

NoClient == [pid |-> "none", prg |-> "none", tcp |-> FALSE,
             warned |-> FALSE, overdue |-> FALSE, page |-> "no"]

\* kill(pid, 0) succeeds: the pid belongs to a process, a zombie included.
Exists(p) == proc[p].st # "none"

Talks(p) == proc[p].st = "run"

Used == {i \in Slots : reginfo[i] # NoClient}

SlotsOf(p) == {i \in Used : reginfo[i].pid = p}

\* The first slot of the pid.
reg_find(p) == Min(SlotsOf(p))

Registered(p) == SlotsOf(p) # {}

IsMailer(c) == c.prg = "mbcico"

RegistryInit ==
    /\ proc = [p \in Pids |-> NoProc]
    /\ reginfo = [i \in Slots |-> NoClient]
    /\ mailers = 0
    /\ ipmailers = 0
    /\ clients = 1
    /\ sysop = FALSE

(***************************************************************************)
(* Ending of a process.  A child of mbtask may stay a zombie until it is    *)
(* waited for, which kill() still finds; the parents of other programs reap *)
(* them.                                                                   *)
(***************************************************************************)
Ended(r) == IF r.child THEN [r EXCEPT !.st = "zombie"] ELSE NoProc

SetConn(p, c) == proc' = [proc EXCEPT ![p].conn = c]

\* Any command of a registered client restarts its timer.
Heard(p) == reginfo' = [reginfo EXCEPT ![reg_find(p)].overdue = FALSE]

\* Mutant: a session that ends without a word stays counted.
UncountClients(S) ==
    /\ mailers' = mailers - Cardinality({i \in S : IsMailer(reginfo[i])})
    /\ clients' = clients - Cardinality(S)
    /\ UNCHANGED ipmailers

\* Removing the clients of the slots S adjusts every count.
Uncount(S) ==
    /\ mailers' = mailers - Cardinality({i \in S : IsMailer(reginfo[i])})
    /\ ipmailers' = ipmailers - Cardinality({i \in S : reginfo[i].tcp})
    /\ clients' = clients - Cardinality(S)

(***************************************************************************)
(* The commands of a client.                                               *)
(***************************************************************************)

\* AINI.  A program that is refused a slot gives up.
reg_newcon(p) ==
    /\ Talks(p) /\ proc[p].conn = "new"
    /\ \/ /\ Used # Slots
          /\ \E i \in Slots \ Used :
                /\ \A j \in Slots \ Used : i <= j
                /\ reginfo' = [reginfo EXCEPT ![i] =
                                 [NoClient EXCEPT !.pid = p, !.prg = proc[p].prg]]
          /\ mailers' = mailers + (IF proc[p].prg = "mbcico" THEN 1 ELSE 0)
          /\ clients' = clients + 1
          /\ SetConn(p, "in")
       \/ /\ Used = Slots
          /\ proc' = [proc EXCEPT ![p] = Ended(@)]
          /\ UNCHANGED <<reginfo, mailers, clients>>
    /\ UNCHANGED <<ipmailers, sysop>>

\* ACLO, the last command of a client.
reg_closecon(p) ==
    /\ Talks(p) /\ proc[p].conn \in {"in", "tcp"} /\ Registered(p)
    /\ reginfo' = [reginfo EXCEPT ![reg_find(p)] = NoClient]
    /\ Uncount({reg_find(p)})
    /\ SetConn(p, "out")
    /\ UNCHANGED sysop

\* ATCP, which RegTCP sends once in the life of a mailer.
reg_ip(p) ==
    /\ Talks(p) /\ proc[p].prg = "mbcico" /\ proc[p].conn = "in" /\ Registered(p)
    /\ SetConn(p, "tcp")
    /\ reginfo' = [reginfo EXCEPT ![reg_find(p)].tcp = TRUE,
                                  ![reg_find(p)].overdue = FALSE]
    /\ ipmailers' = ipmailers + 1
    /\ UNCHANGED <<mailers, clients, sysop>>

\* ADOI, ANOP, ATTY, AUSR and ADIS change nothing here but the time of the last command.
reg_nop(p) ==
    /\ Talks(p) /\ proc[p].conn \in {"in", "tcp"} /\ Registered(p)
    /\ Heard(p)
    /\ UNCHANGED <<proc, counts, sysop>>

\* ASTI and ARTI: the timer is at least 600 seconds again.
reg_timer(p) ==
    /\ Talks(p) /\ proc[p].conn \in {"in", "tcp"} /\ Registered(p)
    /\ reginfo' = [reginfo EXCEPT ![reg_find(p)].warned = FALSE,
                                  ![reg_find(p)].overdue = FALSE]
    /\ UNCHANGED <<proc, counts, sysop>>

\* CSYS, from the sysop's monitor, which is not a client of the model.
reg_sysop(present) ==
    /\ sysop # present
    /\ sysop' = present
    /\ UNCHANGED <<proc, reginfo, counts>>

\* Mutant: only a user who waits for the sysop counts.
SysopPaged(p) == \E i \in Used : reginfo[i].pid # p /\ reginfo[i].page = "paging"

\* Somebody else is paging the sysop or has paged him.
SysopBusy(p) == \E i \in Used : reginfo[i].pid # p /\ reginfo[i].page # "no"

\* CPAG; refused pages change nothing.
reg_page(p) ==
    /\ Talks(p) /\ proc[p].prg = "mbsebbs" /\ proc[p].conn = "in"
    /\ sysop /\ ~SysopBusy(p) /\ Registered(p)
    /\ reginfo' = [reginfo EXCEPT ![reg_find(p)].page = "paging",
                                  ![reg_find(p)].overdue = FALSE]
    /\ UNCHANGED <<proc, counts, sysop>>

\* CCAN: the user no longer waits, the page stays on the sysop's screen.
reg_cancel(p) ==
    /\ Talks(p) /\ proc[p].prg = "mbsebbs" /\ proc[p].conn = "in" /\ Registered(p)
    /\ LET i == reg_find(p) IN
       reginfo' = [reginfo EXCEPT
           ![i].page = IF @ = "paging" THEN "paged" ELSE @, ![i].overdue = FALSE]
    /\ UNCHANGED <<proc, counts, sysop>>

\* The sysop answers the page in the chat.
reg_sysoptalk(p) ==
    /\ Registered(p)
    /\ reginfo' = [reginfo EXCEPT ![reg_find(p)].page = "no"]
    /\ UNCHANGED <<proc, counts, sysop>>

(***************************************************************************)
(* reg_check: forget the clients whose process is gone, signal the ones    *)
(* that are overdue.  SIGTERM first, which a process may survive; a client *)
(* that was warned gets SIGKILL.                                           *)
(***************************************************************************)
Stale == {i \in Used : ~Exists(reginfo[i].pid)}

Late == {i \in Used \ Stale : reginfo[i].overdue}

Killed == {reginfo[i].pid : i \in {j \in Late : reginfo[j].warned}}

\* Mutant: the ten seconds after the first signal are not noted.
CheckedUnwarned(i) ==
    CASE i \in Stale -> NoClient
      [] i \in Late  -> [reginfo[i] EXCEPT !.overdue = FALSE]
      [] OTHER       -> reginfo[i]

Checked(i) ==
    CASE i \in Stale -> NoClient
      [] i \in Late  -> [reginfo[i] EXCEPT !.warned = TRUE, !.overdue = FALSE]
      [] OTHER       -> reginfo[i]

reg_check ==
    /\ reginfo' = [i \in Slots |-> Checked(i)]
    /\ Uncount(Stale)
    /\ proc' = [p \in Pids |-> IF p \in Killed /\ proc[p].st # "zombie"
                              THEN Ended(proc[p]) ELSE proc[p]]
    /\ UNCHANGED sysop

(***************************************************************************)
(* What the programs, mbtask's reaping of its children and the clock do.   *)
(* A pid is not given again while a client is registered under it.         *)
(***************************************************************************)
Start(p) ==
    /\ ~Exists(p) /\ ~Registered(p)
    /\ \E child \in BOOLEAN :
          /\ child => p \in Mailers
          /\ proc' = [proc EXCEPT ![p] =
                 [NoProc EXCEPT !.st = "run", !.child = child,
                                !.prg = IF p \in Mailers THEN "mbcico" ELSE "mbsebbs"]]
    /\ UNCHANGED <<reginfo, counts, sysop>>

\* Also without a word to mbtask, and by a signal of reg_check.
ExitProgram(p) ==
    /\ Talks(p)
    /\ proc' = [proc EXCEPT ![p] = Ended(@)]
    /\ UNCHANGED <<reginfo, counts, sysop>>

Hang(p) ==
    /\ Talks(p)
    /\ proc' = [proc EXCEPT ![p].st = "hung"]
    /\ UNCHANGED <<reginfo, counts, sysop>>

\* wait4 in checktasks.
Reap(p) ==
    /\ proc[p].st = "zombie"
    /\ proc' = [proc EXCEPT ![p] = NoProc]
    /\ UNCHANGED <<reginfo, counts, sysop>>

\* altime seconds pass without a command of the client.
Lapse(i) ==
    /\ i \in Used /\ ~reginfo[i].overdue
    /\ reginfo' = [reginfo EXCEPT ![i].overdue = TRUE]
    /\ UNCHANGED <<proc, counts, sysop>>

Command(p) ==
    \/ reg_newcon(p) \/ reg_closecon(p) \/ reg_ip(p) \/ reg_nop(p) \/ reg_timer(p)
    \/ reg_page(p) \/ reg_cancel(p) \/ reg_sysoptalk(p)

RegistryNext ==
    \/ reg_check
    \/ \E b \in BOOLEAN : reg_sysop(b)
    \/ \E p \in Pids : Command(p) \/ Start(p) \/ ExitProgram(p) \/ Hang(p) \/ Reap(p)
    \/ \E i \in Slots : Lapse(i)

RegistrySpec == RegistryInit /\ [][RegistryNext]_registry_vars

(***************************************************************************)
(* Fairness: mbtask's loop runs reg_check and checktasks every second, and *)
(* time passes for a client whose program hangs.  Programs promise nothing.*)
(***************************************************************************)
Silent(i) == i \in Used /\ proc[reginfo[i].pid].st = "hung"

FairRegistrySpec ==
    /\ RegistrySpec
    /\ WF_registry_vars(reg_check)
    /\ \A p \in Pids : WF_registry_vars(Reap(p))
    /\ \A i \in Slots : WF_registry_vars(Silent(i) /\ Lapse(i))

(***************************************************************************)
(* Properties.                                                             *)
(***************************************************************************)

\* Types of the process table and of the table of clients.
TypeOK ==
    /\ proc \in [Pids -> Process \cup {NoProc}]
    /\ reginfo \in [Slots -> Client \cup {NoClient}]
    /\ mailers \in Nat /\ ipmailers \in Nat /\ clients \in Nat /\ sysop \in BOOLEAN

\* The counts that limit calls, hold back the tosser and are shown as status are those of
\* the table: mailers, TCP/IP sessions, clients with mbtask itself (reg_newcon, reg_ip,
\* reg_closecon, reg_check), whatever died without a word.
CountsAgree ==
    /\ mailers = Cardinality({i \in Used : IsMailer(reginfo[i])})
    /\ ipmailers = Cardinality({i \in Used : reginfo[i].tcp})
    /\ clients = Cardinality(Used) + 1

\* reg_page: no two users have the sysop's attention, also when one that paged before
\* cancels, dies without a word or pages again.
OnePager == Cardinality({i \in Used : reginfo[i].page # "no"}) <= 1

\* A client whose program hangs is signalled by reg_check until its slot is free.
SilentIsFreed == \A p \in Pids : (\E i \in Slots : Silent(i) /\ reginfo[i].pid = p) ~> ~Registered(p)
=============================================================================
