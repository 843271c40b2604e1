---------------------------- MODULE TaskManager ----------------------------
(***************************************************************************)
(* The scheduler of mbtask (mbtask/mbtask.c, calllist.c, ports.c).  mbtask *)
(* is one thread; a turn of its loop is the sequence of phases             *)
(*                                                                         *)
(*    poll -> jobs -> scan -> call -> poll                                 *)
(*                                                                         *)
(* Its children end between any two of them, and a signal may end mbtask   *)
(* there, or between the fork of a program and its entry in the table      *)
(* (die).  Requests (the s_ variables) ask for a job; rescan asks for a    *)
(* new scan of the outbound, which decides what nodes are to be called.    *)
(* Of the table of clients (ClientRegistry) the scheduler uses ipmailers   *)
(* alone: online is the set of the processes that it counts.  ISDN and     *)
(* POTS calls are treated alike by the code: mode "line".                  *)
(***************************************************************************)
EXTENDS Naturals, FiniteSets, FiniteSetsExt, Sequences, SequencesExt

CONSTANTS Pids,          \* process ids the system may give
          Nodes,         \* nodes that may be called
          LineNodes,     \* those called over a line; the others over the internet
          NoNode,        \* a process that calls nobody
          Behind,        \* what the memory behind the call list is taken for
          MAXTASKS,      \* entries of the task table and of the call list
          PAUSETIME,     \* seconds without an event before a job starts
          TOSSWAIT_TIME, \* minutes mailin waits for the mailers
          max_tcp,       \* TCFG.max_tcp
          Lines,         \* modem or ISDN lines
          Asked,         \* requests the environment makes
          Changing,      \* conditions that change: processing, internet
          MaxStops,      \* bound on the children stopped by a signal
          MaxFails       \* bound on fork failures and missing commands

ASSUME TaskAssumption ==
    /\ MAXTASKS \in Nat \ {0} /\ PAUSETIME \in Nat /\ TOSSWAIT_TIME \in Nat
    /\ max_tcp \in Nat /\ Lines \in Nat /\ LineNodes \subseteq Nodes
    /\ NoNode \notin Nodes /\ Behind \notin Nodes
    /\ MaxStops \in Nat /\ MaxFails \in Nat /\ "none" \notin Pids

VARIABLES phase,      \* where the loop is
          proc,       \* process table of the operating system
          online,     \* processes registered with a TCP/IP session
          task,       \* task[i]: launched program in slot i
          calllist,   \* calllist[i]: node to call; index MAXTASKS is behind the array
          call_entry, \* last entry the rotation looked at
          rescan, sema, ptimer, tosswait,
          Processing, internet,
          free,       \* free lines
          stops, fails

jobVars == <<task, calllist, call_entry, rescan, sema, ptimer, tosswait,
             free, fails>>

envVars == <<Processing, internet, stops>>

vars == <<phase, proc, online, jobVars, envVars>>

Requests == <<"mailout", "mailin", "newnews", "mbindex", "msglink", "reqindex">>

Tasks == 0..(MAXTASKS - 1)

\* lost says that mbtask took the child for finished because it had been stopped; cut, that
\* the signal that ended mbtask came between its fork and its entry in the table; killed,
\* that it was sent SIGKILL; told, that it has registered its session.
NoProc == [st |-> "none", prg |-> "none", node |-> NoNode, child |-> FALSE,
           told |-> FALSE, lost |-> FALSE, cut |-> FALSE, killed |-> FALSE]

\* A child that has ended is a "zombie" until checktasks asks for it.  (SIGCHLD is ignored:
\* wait4 then says ECHILD, which checktasks takes for the end as well.)

Ended(r) == IF r.child THEN [r EXCEPT !.st = "zombie"] ELSE NoProc

Alive(p) == proc[p].st \in {"run", "stopped"}

ipmailers == Cardinality(online)

NoTask == [pid |-> "none", kind |-> "none"]

NoCall == [node |-> NoNode, calling |-> FALSE, pid |-> "none"]

Kinds == {"inet", "line", "mbfido", "mbindex", "mbfile"}

Program(kind) == IF kind \in {"inet", "line"} THEN "mbcico" ELSE kind

KindOf(r) ==
    CASE r = "mbindex"  -> "mbindex"
      [] r = "reqindex" -> "mbfile"
      [] OTHER          -> "mbfido"

Mode(n) == IF n \in LineNodes THEN "line" ELSE "inet"

TaskSlots == {i \in Tasks : task[i] # NoTask}

TaskPids == {task[i].pid : i \in TaskSlots}

Entries == {i \in Tasks : calllist[i].node # NoNode}

\* check_calllist returns the number of entries, and nothing else adds or removes one.
call_work == Cardinality(Entries)

runtasktype(kind) == Cardinality({i \in TaskSlots : task[i].kind = kind})

Init ==
    /\ proc = [p \in Pids |-> NoProc] /\ online = {}
    /\ phase = "poll"
    /\ task = [i \in Tasks |-> NoTask]
    /\ calllist = [i \in 0..MAXTASKS |->
          [NoCall EXCEPT !.node = IF i = MAXTASKS THEN Behind ELSE NoNode]]
    /\ call_entry = MAXTASKS
    /\ rescan = TRUE /\ sema = {}
    /\ ptimer = PAUSETIME /\ tosswait = TOSSWAIT_TIME
    /\ Processing = TRUE /\ internet = TRUE
    /\ free = Lines
    /\ stops = 0 /\ fails = 0

(***************************************************************************)
(* checktasks(0): every task that wait4 reports is removed.  wait4 is      *)
(* called with WUNTRACED, so that a child that was stopped is reported     *)
(* too: it is taken for finished although it lives.                        *)
(***************************************************************************)
Finished == {i \in TaskSlots : proc[task[i].pid].st \in {"zombie", "stopped"}}

FinishedPids == {task[i].pid : i \in Finished}

TaskAfter == [i \in Tasks |-> IF i \in Finished THEN NoTask ELSE task[i]]

ProcAfter ==
    [p \in Pids |-> IF p \notin FinishedPids THEN proc[p]
                    ELSE IF proc[p].st = "zombie" THEN NoProc
                    ELSE [proc[p] EXCEPT !.lost = TRUE]]

\* Mutant: the end of a mailer does not clear the mark of its node.
CallUntouched == calllist

CallAfter ==
    [i \in 0..MAXTASKS |->
        IF i < MAXTASKS /\ calllist[i].pid \in FinishedPids
        THEN [calllist[i] EXCEPT !.calling = FALSE, !.pid = "none"]
        ELSE calllist[i]]

RescanAfter == rescan \/ \E i \in Finished : task[i].kind \in {"inet", "line"}

PtimerAfter == IF Finished # {} THEN PAUSETIME ELSE ptimer

RunningAfter == Finished # TaskSlots

(***************************************************************************)
(* launch: after checktasks, fork the program and enter it in the first    *)
(* free slot; every failure returns 0 and leaves the table as it is.       *)
(***************************************************************************)
FreeTasks == {i \in Tasks : TaskAfter[i] = NoTask}

FreePids == {p \in Pids : ProcAfter[p] = NoProc /\ p \notin online}

Child(kind, n) == [NoProc EXCEPT !.st = "run", !.prg = Program(kind), !.node = n,
                                 !.child = TRUE]

\* Failing for a full table, or for want of a program or a process.
LaunchFails ==
    /\ \/ (FreeTasks = {} \/ FreePids = {}) /\ UNCHANGED fails
       \/ fails < MaxFails /\ fails' = fails + 1
    /\ task' = TaskAfter /\ proc' = ProcAfter /\ ptimer' = PtimerAfter

LaunchAs(p, kind, n) ==
    /\ FreeTasks # {} /\ p \in FreePids
    /\ task' = [TaskAfter EXCEPT ![Min(FreeTasks)] = [pid |-> p, kind |-> kind]]
    /\ proc' = [ProcAfter EXCEPT ![p] = Child(kind, n)]
    /\ ptimer' = PAUSETIME
    /\ UNCHANGED fails

(***************************************************************************)
(* The loop.                                                               *)
(***************************************************************************)

\* A turn begins when poll returns; the commands it may bring are the steps of clients
\* below.  reg_check, which drops the clients whose process is gone, and check_ports, which
\* counts the lines without a lock file; then checktasks; then seconds and minutes may
\* have passed for the pause and for the waiting tosser (one each at most).
Turn(second, minute) ==
    /\ phase = "poll"
    /\ online' = {p \in online : Alive(p)}
    /\ free' \in 0..Lines
    /\ task' = TaskAfter /\ proc' = ProcAfter /\ calllist' = CallAfter
    /\ rescan' \in {RescanAfter, RescanAfter \/ free' # free}
    /\ ptimer' = IF PtimerAfter >= second THEN PtimerAfter - second ELSE 0
    /\ tosswait' = IF tosswait >= minute THEN tosswait - minute ELSE 0
    /\ phase' = "jobs"
    /\ UNCHANGED <<call_entry, sema, fails, envVars>>

\* The mailers the tosser waits for: registered TCP/IP sessions and calls over a line.
NoMailers == ipmailers + runtasktype("line") = 0

\* Mutant: incoming mail is tossed while another mbfido runs.
DueTwice(r) ==
    /\ Processing /\ r \in sema /\ ptimer = 0
    /\ CASE r \in {"mailout", "newnews"} -> runtasktype("mbfido") = 0
         [] r = "mailin" -> NoMailers \/ tosswait = 0
         [] OTHER -> TaskSlots = {}

\* The conditions of the six requests.  running, the count of the last checktasks, is
\* that of the table: only checktasks and launch change it.
Due(r) ==
    /\ Processing /\ r \in sema /\ ptimer = 0
    /\ CASE r \in {"mailout", "newnews"} -> runtasktype("mbfido") = 0
         [] r = "mailin" -> runtasktype("mbfido") = 0 /\ (NoMailers \/ tosswait = 0)
         [] OTHER -> TaskSlots = {}

\* The first request in the order of the code that is due.  A program that was launched
\* sets the pause, so that a second one is served only after a failure.
Serving(k) ==
    phase = "jobs" /\ Due(Requests[k]) /\ \A j \in 1..(k - 1) : ~Due(Requests[j])

Serve(k) ==
    /\ Serving(k)
    /\ LaunchFails \/ \E p \in Pids : LaunchAs(p, KindOf(Requests[k]), NoNode)
    /\ calllist' = CallAfter /\ rescan' = RescanAfter
    /\ sema' = sema \ {Requests[k]}
    /\ tosswait' = IF Requests[k] = "mailin" /\ NoMailers THEN TOSSWAIT_TIME ELSE tosswait
    /\ UNCHANGED <<online, phase, call_entry, free, envVars>>

NothingDue ==
    /\ phase = "jobs" /\ \A k \in DOMAIN Requests : ~Due(Requests[k])
    /\ phase' = "scan"
    /\ UNCHANGED <<proc, online, jobVars, envVars>>

\* The part that runs every SLOWRUN seconds is not due, or operations are suspended.
NotSlow ==
    /\ phase = "scan"
    /\ phase' = "poll"
    /\ UNCHANGED <<proc, online, jobVars, envVars>>

\* It is due, and the outbound need not be scanned.
NoScan ==
    /\ phase = "scan" /\ Processing /\ ~rescan
    /\ phase' = "call"
    /\ UNCHANGED <<proc, online, jobVars, envVars>>

\* check_calllist with the nodes found: entries for other nodes are cleared, even while
\* they are being called; nodes without an entry get the first free ones.
Kept(found) == {i \in Entries : calllist[i].node \in found}

Addable(found) ==
    {n \in found : /\ \A i \in Kept(found) : calllist[i].node # n
                   /\ Mode(n) = "inet" => max_tcp > 0 /\ internet
                   /\ Mode(n) = "line" => Lines > 0}

Placements(found) ==
    LET room  == Tasks \ Kept(found)
        new   == Addable(found)
        taken == {S \in SUBSET room :
                     /\ Cardinality(S) = Min({Cardinality(room), Cardinality(new)})
                     /\ \A i \in S, j \in room \ S : i < j}
    IN  UNION {{f \in [S -> new] : \A i, j \in S : f[i] = f[j] => i = j} : S \in taken}

\* outstat finds any set of nodes to call; a failing scan finds none.
Scan ==
    /\ phase = "scan" /\ Processing /\ rescan
    /\ rescan' = FALSE
    /\ \E found \in SUBSET Nodes : \E place \in Placements(found) :
          /\ calllist' = [i \in 0..MAXTASKS |->
                 CASE i = MAXTASKS \/ i \in Kept(found) -> calllist[i]
                   [] i \in DOMAIN place -> [NoCall EXCEPT !.node = place[i]]
                   [] OTHER -> NoCall]
    /\ phase' = "call"
    /\ UNCHANGED <<proc, online, task, call_entry, sema, ptimer, tosswait, free, fails, envVars>>

\* The order in which the rotation visits the entries after call_entry.  It runs over
\* 0..MAXTASKS: one element more than the array has.
Rotation(k) == (call_entry + k) % (MAXTASKS + 1)

\* An entry that may be called now, but for its retry time.
Ready(i) ==
    LET e == calllist[i] IN
    /\ e.node # NoNode /\ ~e.calling
    /\ \/ Mode(e.node) = "inet" /\ ipmailers < max_tcp /\ internet
       \/ Mode(e.node) = "line" /\ runtasktype("line") < free

\* due are the entries whose retry time is reached.
Turns(due) == {k \in 1..(MAXTASKS + 1) : Ready(Rotation(k)) /\ Rotation(k) \in due}

\* The first entry of the rotation that is ready and due.
Calling(due) == phase = "call" /\ call_work > 0 /\ Turns(due) # {}

NextCall(due) == Rotation(Min(Turns(due)))

\* Launch a mailer for it.
CallNode(due) ==
    /\ Calling(due)
    /\ LET c == NextCall(due)
           n == calllist[c].node
       IN  /\ call_entry' = c
           /\ \/ LaunchFails /\ calllist' = CallAfter
              \/ \E p \in Pids :
                    /\ LaunchAs(p, Mode(n), n)
                    /\ calllist' = [CallAfter EXCEPT ![c] =
                           [node |-> n, calling |-> TRUE, pid |-> p]]
    /\ rescan' = TRUE
    /\ phase' = "poll"
    /\ UNCHANGED <<online, sema, tosswait, free, envVars>>

NobodyToCall(due) ==
    /\ phase = "call" /\ (call_work = 0 \/ Turns(due) = {})
    /\ phase' = "poll"
    /\ UNCHANGED <<proc, online, jobVars, envVars>>

(***************************************************************************)
(* die: reap, ask the tasks to end, wait, kill the rest, look once more    *)
(* and give up.  It is called by the loop after SIGTERM and SIGINT, and it *)
(* is itself the handler of SIGHUP, SIGPIPE, SIGBUS, SIGILL, SIGSEGV and   *)
(* SIGIOT, so that it may begin anywhere, in itself included.              *)
(***************************************************************************)
Reap ==
    /\ task' = TaskAfter /\ proc' = ProcAfter /\ calllist' = CallAfter
    /\ rescan' = RescanAfter /\ ptimer' = PtimerAfter
    /\ UNCHANGED <<online, call_entry, sema, tosswait, free, fails, envVars>>

Shutdown ==
    /\ phase # "over"
    /\ Reap
    /\ phase' = "term"

\* The signal comes when launch has forked the program and not yet entered it.
CutLaunch(p, kind, n) ==
    /\ FreeTasks # {} /\ p \in FreePids
    /\ task' = TaskAfter /\ calllist' = CallAfter
    /\ proc' = [ProcAfter EXCEPT ![p] = [Child(kind, n) EXCEPT !.cut = TRUE]]
    /\ rescan' = RescanAfter /\ ptimer' = PtimerAfter
    /\ phase' = "term"
    /\ UNCHANGED <<online, call_entry, sema, tosswait, free, fails, envVars>>

ShutdownInLaunch(p) ==
    \/ \E k \in DOMAIN Requests : Serving(k) /\ CutLaunch(p, KindOf(Requests[k]), NoNode)
    \/ \E due \in SUBSET (0..MAXTASKS) :
          /\ Calling(due)
          /\ LET n == calllist[NextCall(due)].node IN CutLaunch(p, Mode(n), n)

\* Mutant: nobody is killed after the wait.
AwaitPolitely ==
    /\ phase = "term"
    /\ Reap
    /\ phase' \in (IF RunningAfter THEN {"term", "over"} ELSE {"over"})

\* One of the fifteen checks after SIGTERM.
AwaitTasks ==
    /\ phase = "term"
    /\ Reap
    /\ IF RunningAfter THEN phase' \in {"term", "kill"} ELSE phase' = "over"

\* SIGKILL to every task in the table, and wait4 at once.
KillTasks ==
    /\ phase = "kill"
    /\ task' = TaskAfter /\ calllist' = CallAfter
    /\ proc' = [p \in Pids |-> IF p \in TaskPids /\ Alive(p)
                               THEN [ProcAfter[p] EXCEPT !.killed = TRUE]
                               ELSE ProcAfter[p]]
    /\ rescan' = RescanAfter /\ ptimer' = PtimerAfter
    /\ phase' = "last"
    /\ UNCHANGED <<online, call_entry, sema, tosswait, free, fails, envVars>>

\* The check a second later; who is in the table now is reported and left alone.
LastCheck ==
    /\ phase = "last"
    /\ Reap
    /\ phase' = "over"

(***************************************************************************)
(* What the programs, the users and the clock do.                          *)
(***************************************************************************)

\* AINI and ATCP of a mailer with a TCP/IP session, and its ACLO.
RegTCP(p) ==
    /\ phase = "poll" /\ proc[p].st = "run" /\ proc[p].prg = "mbcico" /\ ~proc[p].told
    /\ proc[p].node \notin LineNodes
    /\ proc' = [proc EXCEPT ![p].told = TRUE]
    /\ online' = online \cup {p}
    /\ UNCHANGED <<phase, jobVars, envVars>>

CloseTCP(p) ==
    /\ phase = "poll" /\ proc[p].st = "run" /\ p \in online
    /\ online' = online \ {p}
    /\ UNCHANGED <<proc, phase, jobVars, envVars>>

\* sem_set, by a command or a file in the directory of semaphores.
sem_set(r) ==
    /\ phase = "poll"
    /\ sema' = sema \cup {r}
    /\ rescan' = (rescan \/ r = "scanout")
    /\ tosswait' = IF r = "mailin" THEN TOSSWAIT_TIME ELSE tosswait
    /\ ptimer' = PAUSETIME
    /\ UNCHANGED <<proc, online, phase, task, calllist, call_entry, free, fails, Processing,
                   internet, stops>>

\* The board opens or closes, the power or the load changes; the internet comes or goes.
Conditions ==
    /\ phase = "poll"
    /\ \/ "processing" \in Changing /\ Processing' = ~Processing /\ UNCHANGED internet
       \/ "internet" \in Changing /\ internet' = ~internet /\ UNCHANGED Processing
    /\ UNCHANGED <<proc, online, phase, jobVars, stops>>

\* A node calls in.
Incoming(p) ==
    /\ phase = "poll" /\ proc[p] = NoProc /\ p \notin online
    /\ proc' = [proc EXCEPT ![p] = [NoProc EXCEPT !.st = "run", !.prg = "mbcico"]]
    /\ UNCHANGED <<online, phase, jobVars, envVars>>

\* A program ends, or dies of SIGKILL sooner or later; a mailer has then fixed the time of
\* the next try.
Exit(p) ==
    /\ proc[p].st = "run" \/ (proc[p].st = "stopped" /\ proc[p].killed)
    /\ proc' = [proc EXCEPT ![p] = Ended(@)]
    /\ UNCHANGED <<online, phase, jobVars, envVars>>

\* A child is stopped and continued by a signal.
Stop(p) ==
    /\ stops < MaxStops /\ proc[p].st = "run" /\ proc[p].child /\ ~proc[p].killed
    /\ proc' = [proc EXCEPT ![p].st = "stopped"]
    /\ stops' = stops + 1
    /\ UNCHANGED <<online, phase, jobVars, Processing, internet>>

Continue(p) ==
    /\ proc[p].st = "stopped"
    /\ proc' = [proc EXCEPT ![p].st = "run"]
    /\ UNCHANGED <<online, phase, jobVars, envVars>>

Loop ==
    \/ \E second, minute \in {0, 1} : Turn(second, minute)
    \/ NothingDue \/ \E k \in DOMAIN Requests : Serve(k)
    \/ NotSlow \/ NoScan \/ Scan
    \/ \E due \in SUBSET (0..MAXTASKS) : CallNode(due) \/ NobodyToCall(due)
    \/ AwaitTasks \/ KillTasks \/ LastCheck

Environment ==
    \/ \E p \in Pids : \/ RegTCP(p) \/ CloseTCP(p) \/ Incoming(p)
                       \/ Exit(p) \/ Stop(p) \/ Continue(p)
    \/ \E r \in Asked : sem_set(r)
    \/ Conditions

Next == Loop \/ Shutdown \/ (\E p \in Pids : ShutdownInLaunch(p)) \/ Environment

Spec == Init /\ [][Next]_vars

(***************************************************************************)
(* Fairness: the loop runs, time passes, the slow part of the loop comes   *)
(* round every twenty seconds, and an entry's retry time, once reached,    *)
(* stays reached.  Programs promise nothing.                               *)
(***************************************************************************)
FairSpec ==
    /\ Spec
    /\ WF_vars(Loop) /\ SF_vars(Turn(1, 1)) /\ SF_vars(NoScan \/ Scan) /\ SF_vars(CallNode(0..MAXTASKS))

(***************************************************************************)
(* Properties.                                                             *)
(***************************************************************************)

Programs == {"none", "mbcico", "mbfido", "mbindex", "mbfile"}

Callable == Nodes \cup {NoNode, Behind}

Process == [st : {"none", "run", "stopped", "zombie"}, prg : Programs, node : Callable,
            child : BOOLEAN, told : BOOLEAN, lost : BOOLEAN, cut : BOOLEAN, killed : BOOLEAN]

Task == [pid : Pids, kind : Kinds]

Call == [node : Callable, calling : BOOLEAN, pid : Pids \cup {"none"}]

TablesOK ==
    /\ proc \in [Pids -> Process]
    /\ task \in [Tasks -> Task \cup {NoTask}]
    /\ calllist \in [0..MAXTASKS -> Call]

TimersOK ==
    /\ call_entry \in 0..MAXTASKS /\ free \in 0..Lines
    /\ ptimer \in 0..PAUSETIME /\ tosswait \in 0..TOSSWAIT_TIME
    /\ rescan \in BOOLEAN /\ Processing \in BOOLEAN /\ internet \in BOOLEAN
    /\ online \subseteq Pids /\ sema \subseteq Asked
    /\ stops \in 0..MaxStops /\ fails \in 0..MaxFails
    /\ phase \in {"poll", "jobs", "scan", "call", "term", "kill", "last", "over"}

\* Types of the tables, the timers and the set of sessions.
TypeOK == TablesOK /\ TimersOK

\* An entry of the call list that is marked as being called names a task that is a mailer
\* for that node, so that its end will clear the mark (checktasks, check_calllist).
CallsTracked ==
    \A i \in Entries :
        IF calllist[i].calling
        THEN \E t \in TaskSlots :
                /\ task[t].pid = calllist[i].pid
                /\ task[t].kind = Mode(calllist[i].node)
                /\ proc[task[t].pid].node = calllist[i].node
        ELSE calllist[i].pid = "none"

\* "Max. 1 mbfido task": at most one mbfido runs, but for those that were stopped by a
\* signal, which checktasks takes for finished.
OneTosser ==
    Cardinality({p \in Pids : Alive(p) /\ proc[p].prg = "mbfido" /\ ~proc[p].lost}) <= 1

\* When mbtask has shut down (die), every program that it launched and that still lives was
\* sent SIGKILL and is one of those in the table ("Shutdown with %d tasks still running"),
\* unless mbtask had lost sight of it: it was stopped by a signal and taken for finished, or
\* it was forked when the signal came that ended mbtask.
NoneOverlooked ==
    phase = "over" =>
        \A p \in Pids : Alive(p) /\ proc[p].child =>
            proc[p].lost \/ proc[p].cut \/ (proc[p].killed /\ p \in TaskPids)

\* "So we wait for 30 minutes and if there are still mailers running, mbfido is started
\* anyway": mail that waits to be tossed while operations are not suspended is tossed.
MailIsTossed ==
    "mailin" \in sema ~> \/ "mailin" \notin sema \/ ~Processing
                         \/ phase \in {"term", "kill", "last", "over"}

=============================================================================
