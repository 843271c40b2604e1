------------------------- MODULE TaskManager_proofs -------------------------
(***************************************************************************)
(* Proofs about TaskManager: for every number of task slots, nodes and     *)
(* lines, at most one mbfido runs, a mark in the call list names a mailer  *)
(* of the task table, and a program that survives mbtask is one that it    *)
(* tried to kill and reports, or that it had lost sight of before.         *)
(*                                                                         *)
(* All three rest on the agreement of two tables that mbtask and the       *)
(* operating system keep apart: every task slot names a living or unreaped *)
(* child of its own, and every child that mbtask has not lost has a slot,  *)
(* but for the one that was forked when a signal ended mbtask.             *)
(***************************************************************************)
EXTENDS TaskManager, FiniteSetTheorems, WellFoundedInduction, TLAPS

-----------------------------------------------------------------------------
(* The inductive invariant. *)

(* Process r is the child that a task of this kind stands for. *)
Serves(r, kind) ==
    r.st # "none" /\ r.child = TRUE /\ r.lost = FALSE /\ r.prg = Program(kind)

(* A child that mbtask has launched and not seen the end of. *)
Known(r) ==
    r.st \in {"run", "stopped"} /\ r.child = TRUE /\ r.lost = FALSE /\ r.cut = FALSE

(* The task table and the process table agree. *)
Agree(tk, pr) ==
    /\ \A i \in Tasks : tk[i] # NoTask => Serves(pr[tk[i].pid], tk[i].kind)
    /\ \A i, j \in Tasks : tk[i] # NoTask /\ tk[j] # NoTask /\ tk[i].pid = tk[j].pid => i = j
    /\ \A p \in Pids : Known(pr[p]) => \E i \in Tasks : tk[i] # NoTask /\ tk[i].pid = p
    /\ \A p \in Pids : pr[p].prg = "mbfido" => pr[p].child = TRUE

(* At most one task is a tosser. *)
Single(tk) ==
    \A i, j \in Tasks : /\ tk[i] # NoTask /\ tk[i].kind = "mbfido"
                        /\ tk[j] # NoTask /\ tk[j].kind = "mbfido"
                        => i = j

(* Call e is marked exactly while a task is at it. *)
Backed(e, tk, pr) ==
    IF e.calling = TRUE
    THEN \E t \in Tasks : /\ tk[t] # NoTask /\ tk[t].pid = e.pid
                          /\ tk[t].kind = Mode(e.node) /\ pr[e.pid].node = e.node
    ELSE e.pid = "none"

Tracked(cl, tk, pr) == \A i \in Tasks : cl[i].node # NoNode => Backed(cl[i], tk, pr)

Typed(tk, pr, cl) ==
    /\ pr \in [Pids -> Process]
    /\ tk \in [Tasks -> Task \cup {NoTask}]
    /\ cl \in [0..MAXTASKS -> Call]

(* What the three tables keep to. *)
InStep(tk, pr, cl) ==
    Typed(tk, pr, cl) /\ Agree(tk, pr) /\ Single(tk) /\ Tracked(cl, tk, pr)

Dying == {"term", "kill", "last", "over"}

(* No child was forked when a signal came. *)
Uncut(pr) == \A p \in Pids : pr[p].cut = FALSE

(* At most one was, and it is not a second tosser. *)
CutOnce(pr, tk) ==
    /\ \A p, q \in Pids : pr[p].cut = TRUE /\ pr[q].cut = TRUE => p = q
    /\ \A p \in Pids : pr[p].cut = TRUE /\ pr[p].prg = "mbfido" =>
          \A i \in Tasks : tk[i] # NoTask => tk[i].kind # "mbfido"

(* The tasks left in the table were sent SIGKILL. *)
AllKilled(tk, pr) == \A i \in Tasks : tk[i] # NoTask => pr[tk[i].pid].killed = TRUE

TaskInv ==
    /\ InStep(task, proc, calllist) /\ TimersOK
    /\ CutOnce(proc, task)
    /\ phase \notin Dying => Uncut(proc)
    /\ phase \in {"last", "over"} => AllKilled(task, proc)

-----------------------------------------------------------------------------
(* Numbers and records. *)

LEMMA Constants ==
    /\ TaskAssumption /\ MAXTASKS \in Nat \ {0} /\ PAUSETIME \in Nat /\ TOSSWAIT_TIME \in Nat
    /\ Lines \in Nat /\ MaxStops \in Nat /\ MaxFails \in Nat /\ "none" \notin Pids
    /\ NoNode \notin Nodes
BY TaskAssumption DEF TaskAssumption

LEMMA Indexes ==
    /\ Tasks \subseteq Nat /\ Tasks \subseteq 0..MAXTASKS
    /\ \A i \in 0..MAXTASKS : i \in Tasks <=> i < MAXTASKS
    /\ \A i \in Tasks : i < MAXTASKS
BY Constants DEF Tasks

(* A set of natural numbers that is not empty has a least member. *)
LEMMA LeastMember ==
    ASSUME NEW T, T \subseteq Nat, T # {}
    PROVE  Min(T) \in T
<1> DEFINE R == {ss \in Nat \X Nat : ss[1] < ss[2]}
<1>1. IsWellFoundedOn(R, Nat)
  BY NatLessThanWellFounded DEF OpToRel
<1> HIDE DEF R
<1>2. PICK x \in T : \A y \in T : <<y, x>> \notin R
  BY <1>1, WFMin
<1>3. \A y \in T : ~(y < x)
  BY <1>2 DEF R
<1>4. \E z \in T : \A y \in T : z <= y
  BY <1>3
<1>5. QED
  BY <1>4 DEF Min

(* runtasktype is zero when no task is of the kind. *)
LEMMA NoneRuns ==
    ASSUME NEW kind, runtasktype(kind) = 0
    PROVE  \A i \in Tasks : task[i] # NoTask => task[i].kind # kind
<1> DEFINE S == {i \in TaskSlots : task[i].kind = kind}
<1>1. IsFiniteSet(Tasks)
  BY Constants, FS_Interval DEF Tasks
<1>2. S \subseteq Tasks
  BY DEF TaskSlots
<1>3. IsFiniteSet(S)
  BY <1>1, <1>2, FS_Subset
<1>4. S = {}
  BY <1>3, FS_EmptySet DEF runtasktype
<1>5. QED
  BY <1>4 DEF TaskSlots

LEMMA NotTask == NoTask \notin Task /\ NoProc \in Process /\ NoCall \in Call
BY Constants DEF Task, NoTask, NoProc, Process, Callable, NoCall, Call, Programs

LEMMA NoProcFields ==
    /\ NoProc.st = "none" /\ NoProc.child = FALSE /\ NoProc.prg = "none"
    /\ NoProc.node = NoNode /\ NoProc.cut = FALSE /\ NoProc.killed = FALSE
BY DEF NoProc

LEMMA NoCallFields == NoCall.node = NoNode /\ NoCall.calling = FALSE /\ NoCall.pid = "none"
BY DEF NoCall

(* The records of a process that is lost, registered or in another state. *)
LEMMA ProcessUpdates ==
    ASSUME NEW r \in Process
    PROVE  /\ LET q == [r EXCEPT !.lost = TRUE]
              IN  q \in Process /\ q.st = r.st /\ q.child = r.child /\ q.prg = r.prg
                  /\ q.node = r.node /\ q.lost = TRUE /\ q.cut = r.cut
                  /\ q.killed = r.killed
           /\ LET q == [r EXCEPT !.told = TRUE]
              IN  q \in Process /\ q.st = r.st /\ q.child = r.child /\ q.prg = r.prg
                  /\ q.node = r.node /\ q.lost = r.lost /\ q.cut = r.cut
                  /\ q.killed = r.killed
           /\ LET q == [r EXCEPT !.killed = TRUE]
              IN  q \in Process /\ q.st = r.st /\ q.child = r.child /\ q.prg = r.prg
                  /\ q.node = r.node /\ q.lost = r.lost /\ q.cut = r.cut
                  /\ q.killed = TRUE
BY DEF Process

LEMMA StateUpdate ==
    ASSUME NEW r \in Process, NEW s \in {"run", "stopped", "zombie"}
    PROVE  LET q == [r EXCEPT !.st = s]
           IN  q \in Process /\ q.st = s /\ q.child = r.child /\ q.prg = r.prg
               /\ q.node = r.node /\ q.lost = r.lost /\ q.cut = r.cut
               /\ q.killed = r.killed
BY DEF Process

LEMMA CallCleared ==
    ASSUME NEW e \in Call
    PROVE  LET q == [e EXCEPT !.calling = FALSE, !.pid = "none"]
           IN  q \in Call /\ q.node = e.node /\ q.calling = FALSE /\ q.pid = "none"
BY DEF Call

LEMMA CallOpened ==
    ASSUME NEW n \in Callable
    PROVE  LET q == [NoCall EXCEPT !.node = n]
           IN  q \in Call /\ q.node = n /\ q.calling = FALSE /\ q.pid = "none"
BY DEF Call, NoCall

-----------------------------------------------------------------------------
(* Changes of the tables. *)

(* checktasks: the tasks of some children are dropped, and with them the   *)
(* marks of their calls; the children are reaped or lost.                  *)
Dropped(tk, pr, cl, tk2, pr2, cl2, F) ==
    /\ F \subseteq Tasks
    /\ \A i \in F : tk[i] # NoTask
    /\ tk2 = [i \in Tasks |-> IF i \in F THEN NoTask ELSE tk[i]]
    /\ pr2 \in [Pids -> Process]
    /\ \A p \in Pids : IF \E i \in F : tk[i].pid = p
                       THEN pr2[p] = NoProc \/ (pr2[p].lost = TRUE /\ pr2[p].child = TRUE)
                       ELSE pr2[p] = pr[p]
    /\ cl2 \in [0..MAXTASKS -> Call]
    /\ \A i \in Tasks : IF \E j \in F : tk[j].pid = cl[i].pid
                        THEN cl2[i].calling = FALSE /\ cl2[i].pid = "none"
                        ELSE cl2[i] = cl[i]

LEMMA DropKeeps ==
    ASSUME NEW tk, NEW pr, NEW cl, NEW tk2, NEW pr2, NEW cl2, NEW F,
           InStep(tk, pr, cl), Dropped(tk, pr, cl, tk2, pr2, cl2, F)
    PROVE  InStep(tk2, pr2, cl2)
<1>1. /\ pr \in [Pids -> Process] /\ tk \in [Tasks -> Task \cup {NoTask}]
      /\ cl \in [0..MAXTASKS -> Call]
  BY DEF InStep, Typed
<1>2. \A i \in Tasks : /\ tk2[i] # NoTask => i \notin F /\ tk2[i] = tk[i] /\ tk[i] # NoTask
                       /\ i \notin F => tk2[i] = tk[i]
                       /\ i \in F => tk2[i] = NoTask
  BY DEF Dropped
<1>3. \A i \in Tasks : tk[i] # NoTask => tk[i].pid \in Pids
  BY <1>1 DEF Task
<1>4. Typed(tk2, pr2, cl2)
  BY <1>1 DEF Dropped, Typed
<1>5. ASSUME NEW i \in Tasks, tk2[i] # NoTask PROVE pr2[tk[i].pid] = pr[tk[i].pid]
  <2>1. i \notin F /\ tk[i] # NoTask
    BY <1>2, <1>5
  <2>2. \A j \in F : tk[j].pid # tk[i].pid
    BY <2>1 DEF Dropped, InStep, Agree
  <2>3. QED
    BY <1>3, <2>1, <2>2 DEF Dropped
<1>6. \A i \in Tasks : tk2[i] # NoTask => Serves(pr2[tk2[i].pid], tk2[i].kind)
  BY <1>2, <1>5 DEF InStep, Agree
<1>7. ASSUME NEW p \in Pids, Known(pr2[p])
      PROVE  \E i \in Tasks : tk2[i] # NoTask /\ tk2[i].pid = p
  <2>1. pr2[p] # NoProc /\ pr2[p].lost = FALSE
    BY <1>7, NoProcFields DEF Known
  <2>2. pr2[p] = pr[p] /\ ~\E i \in F : tk[i].pid = p
    BY <2>1 DEF Dropped
  <2>3. PICK i \in Tasks : tk[i] # NoTask /\ tk[i].pid = p
    BY <1>7, <2>2 DEF InStep, Agree
  <2>4. QED
    BY <1>2, <2>2, <2>3
<1>8. \A p \in Pids : pr2[p].prg = "mbfido" => pr2[p].child = TRUE
  <2>1. \A p \in Pids : pr2[p] = pr[p] \/ pr2[p] = NoProc \/ pr2[p].child = TRUE
    BY DEF Dropped
  <2>2. QED
    BY <2>1, NoProcFields DEF InStep, Agree
<1>9. Agree(tk2, pr2)
  BY <1>2, <1>6, <1>7, <1>8 DEF InStep, Agree
<1>10. Single(tk2)
  BY <1>2 DEF InStep, Single
<1>11. ASSUME NEW i \in Tasks, cl2[i].node # NoNode PROVE Backed(cl2[i], tk2, pr2)
  <2>1. CASE \E j \in F : tk[j].pid = cl[i].pid
    BY <2>1 DEF Dropped, Backed
  <2>2. CASE ~\E j \in F : tk[j].pid = cl[i].pid
    <3>1. cl2[i] = cl[i] /\ Backed(cl[i], tk, pr)
      BY <1>11, <2>2 DEF Dropped, InStep, Tracked
    <3>2. CASE cl[i].calling = TRUE
      <4>1. PICK t \in Tasks : /\ tk[t] # NoTask /\ tk[t].pid = cl[i].pid
                               /\ tk[t].kind = Mode(cl[i].node)
                               /\ pr[cl[i].pid].node = cl[i].node
        BY <3>1, <3>2 DEF Backed
      <4>2. t \notin F /\ tk2[t] = tk[t]
        BY <1>2, <2>2, <4>1
      <4>3. pr2[cl[i].pid] = pr[cl[i].pid]
        BY <1>5, <4>1, <4>2
      <4>4. QED
        BY <3>1, <3>2, <4>1, <4>2, <4>3 DEF Backed
    <3>3. CASE cl[i].calling # TRUE
      BY <3>1, <3>3 DEF Backed
    <3>4. QED
      BY <3>2, <3>3
  <2>3. QED
    BY <2>1, <2>2
<1>12. QED
  BY <1>4, <1>9, <1>10, <1>11 DEF InStep, Tracked

(* launch: a free slot and an unused process become a task and its child. *)
LEMMA LaunchKeeps ==
    ASSUME NEW tk, NEW pr, NEW cl, InStep(tk, pr, cl),
           NEW f \in Tasks, tk[f] = NoTask, NEW p \in Pids, pr[p] = NoProc,
           NEW kind \in Kinds, NEW n \in Callable,
           kind = "mbfido" => \A i \in Tasks : tk[i] # NoTask => tk[i].kind # "mbfido"
    PROVE  LET tk2 == [tk EXCEPT ![f] = [pid |-> p, kind |-> kind]]
               pr2 == [pr EXCEPT ![p] = Child(kind, n)]
           IN  /\ InStep(tk2, pr2, cl)
               /\ tk2[f] # NoTask /\ tk2[f].pid = p /\ tk2[f].kind = kind /\ pr2[p].node = n
<1> DEFINE x == [pid |-> p, kind |-> kind]
           c == Child(kind, n)
           tk2 == [tk EXCEPT ![f] = x]
           pr2 == [pr EXCEPT ![p] = c]
<1>1. /\ pr \in [Pids -> Process] /\ tk \in [Tasks -> Task \cup {NoTask}]
      /\ cl \in [0..MAXTASKS -> Call]
  BY DEF InStep, Typed
<1>2. x \in Task /\ x # NoTask /\ x.pid = p /\ x.kind = kind
  BY Constants DEF Task, NoTask
<1>3. /\ c \in Process /\ c.st = "run" /\ c.child = TRUE /\ c.lost = FALSE
      /\ c.prg = Program(kind) /\ c.node = n
  BY DEF Child, NoProc, Process, Program, Programs, Kinds
<1> HIDE DEF x, c
<1>4. tk2[f] = x /\ \A i \in Tasks : i # f => tk2[i] = tk[i]
  BY <1>1
<1>5. pr2[p] = c /\ \A q \in Pids : q # p => pr2[q] = pr[q]
  BY <1>1
<1>6. Typed(tk2, pr2, cl)
  BY <1>1, <1>2, <1>3 DEF Typed
<1> HIDE DEF tk2, pr2
<1>7. \A i \in Tasks : tk[i] # NoTask => tk[i].pid \in Pids /\ tk[i].pid # p
  <2>1. \A i \in Tasks : tk[i] # NoTask => tk[i].pid \in Pids
    BY <1>1 DEF Task
  <2>2. \A i \in Tasks : tk[i] # NoTask => pr[tk[i].pid].st # "none"
    BY DEF InStep, Agree, Serves
  <2>3. QED
    BY <2>1, <2>2, NoProcFields
<1>8. Agree(tk2, pr2)
  <2>1. \A i \in Tasks : tk2[i] # NoTask => Serves(pr2[tk2[i].pid], tk2[i].kind)
    <3>1. Serves(pr2[tk2[f].pid], tk2[f].kind)
      BY <1>2, <1>3, <1>4, <1>5 DEF Serves
    <3>2. QED
      BY <1>4, <1>5, <1>7, <3>1 DEF InStep, Agree
  <2>2. \A i, j \in Tasks :
           tk2[i] # NoTask /\ tk2[j] # NoTask /\ tk2[i].pid = tk2[j].pid => i = j
    BY <1>2, <1>4, <1>7 DEF InStep, Agree
  <2>3. ASSUME NEW q \in Pids, Known(pr2[q])
        PROVE  \E i \in Tasks : tk2[i] # NoTask /\ tk2[i].pid = q
    <3>1. CASE q = p
      BY <1>2, <1>4, <3>1
    <3>2. CASE q # p
      <4>1. PICK i \in Tasks : tk[i] # NoTask /\ tk[i].pid = q
        BY <1>5, <2>3, <3>2 DEF InStep, Agree
      <4>2. QED
        BY <1>4, <4>1
    <3>3. QED
      BY <3>1, <3>2
  <2>4. \A q \in Pids : pr2[q].prg = "mbfido" => pr2[q].child = TRUE
    BY <1>3, <1>5 DEF InStep, Agree
  <2>5. QED
    BY <2>1, <2>2, <2>3, <2>4 DEF Agree
<1>9. Single(tk2)
  BY <1>2, <1>4 DEF InStep, Single
<1>10. ASSUME NEW i \in Tasks, cl[i].node # NoNode PROVE Backed(cl[i], tk2, pr2)
  <2>1. Backed(cl[i], tk, pr)
    BY <1>10 DEF InStep, Tracked
  <2>2. CASE cl[i].calling = TRUE
    <3>1. PICK t \in Tasks : /\ tk[t] # NoTask /\ tk[t].pid = cl[i].pid
                             /\ tk[t].kind = Mode(cl[i].node)
                             /\ pr[cl[i].pid].node = cl[i].node
      BY <2>1, <2>2 DEF Backed
    <3>2. tk2[t] = tk[t] /\ pr2[cl[i].pid] = pr[cl[i].pid]
      BY <1>4, <1>5, <1>7, <3>1
    <3>3. QED
      BY <2>2, <3>1, <3>2 DEF Backed
  <2>3. CASE cl[i].calling # TRUE
    BY <2>1, <2>3 DEF Backed
  <2>4. QED
    BY <2>2, <2>3
<1>11. InStep(tk2, pr2, cl)
  BY <1>6, <1>8, <1>9, <1>10 DEF InStep, Tracked
<1>12. QED
  BY <1>2, <1>3, <1>4, <1>5, <1>11 DEF tk2, pr2, x, c

(* What happens to a process outside mbtask: a child keeps what its task   *)
(* says of it, and nobody becomes a child.                                 *)
Drift(r, q) ==
    /\ q \in Process
    /\ r.child = TRUE /\ r.st # "none" =>
          /\ q.st # "none" /\ q.child = TRUE /\ q.lost = r.lost /\ q.prg = r.prg
          /\ q.node = r.node /\ (r.killed = TRUE => q.killed = TRUE)
    /\ Known(q) => Known(r)
    /\ q.prg = "mbfido" => q.child = TRUE
    /\ q.cut = TRUE => r.cut = TRUE /\ q.prg = r.prg

Drifted(pr, pr2) == pr2 \in [Pids -> Process] /\ \A p \in Pids : Drift(pr[p], pr2[p])

(* A process keeps what is said of it while another one changes. *)
LEMMA OneDrifts ==
    ASSUME NEW tk, NEW pr, NEW cl, InStep(tk, pr, cl), NEW p \in Pids, NEW q, Drift(pr[p], q)
    PROVE  Drifted(pr, [pr EXCEPT ![p] = q])
<1> DEFINE pr2 == [pr EXCEPT ![p] = q]
<1>1. pr \in [Pids -> Process] /\ pr2 \in [Pids -> Process]
  BY DEF InStep, Typed, Drift
<1>2. pr2[p] = q /\ \A o \in Pids : o # p => pr2[o] = pr[o]
  BY <1>1
<1> HIDE DEF pr2
<1>3. \A o \in Pids : Drift(pr[o], pr[o])
  BY <1>1 DEF Drift, InStep, Agree
<1>4. \A o \in Pids : Drift(pr[o], pr2[o])
  BY <1>2, <1>3
<1>5. QED
  BY <1>1, <1>4 DEF Drifted, pr2

LEMMA DriftKeeps ==
    ASSUME NEW tk, NEW pr, NEW cl, NEW pr2, InStep(tk, pr, cl), Drifted(pr, pr2)
    PROVE  InStep(tk, pr2, cl)
<1>1. /\ pr \in [Pids -> Process] /\ tk \in [Tasks -> Task \cup {NoTask}]
      /\ cl \in [0..MAXTASKS -> Call] /\ pr2 \in [Pids -> Process]
  BY DEF InStep, Typed, Drifted
<1>2. \A o \in Pids : Drift(pr[o], pr2[o])
  BY DEF Drifted
<1>3. \A i \in Tasks : tk[i] # NoTask => tk[i].pid \in Pids
  BY <1>1 DEF Task
<1>4. ASSUME NEW i \in Tasks, tk[i] # NoTask
      PROVE  Serves(pr2[tk[i].pid], tk[i].kind) /\ pr2[tk[i].pid].node = pr[tk[i].pid].node
  <2>1. Serves(pr[tk[i].pid], tk[i].kind)
    BY <1>4 DEF InStep, Agree
  <2>2. Drift(pr[tk[i].pid], pr2[tk[i].pid])
    BY <1>2, <1>3, <1>4
  <2>3. QED
    BY <2>1, <2>2 DEF Serves, Drift
<1>5. \A o \in Pids : Known(pr2[o]) => Known(pr[o])
  BY <1>2 DEF Drift
<1>6. \A o \in Pids : pr2[o].prg = "mbfido" => pr2[o].child = TRUE
  BY <1>2 DEF Drift, InStep, Agree
<1>7. Agree(tk, pr2)
  BY <1>4, <1>5, <1>6 DEF InStep, Agree
<1>8. ASSUME NEW i \in Tasks, cl[i].node # NoNode PROVE Backed(cl[i], tk, pr2)
  <2>1. Backed(cl[i], tk, pr)
    BY <1>8 DEF InStep, Tracked
  <2>2. QED
    BY <1>4, <2>1 DEF Backed
<1>9. QED
  BY <1>1, <1>7, <1>8 DEF InStep, Typed, Tracked

(* What was cut off in the launch stays the only one. *)
CutFrom(pr, pr2) ==
    \A p \in Pids : pr2[p].cut = TRUE => pr[p].cut = TRUE /\ pr2[p].prg = pr[p].prg

Fewer(tk, tk2) == \A i \in Tasks : tk2[i] # NoTask => tk2[i] = tk[i]

LEMMA CutKeeps ==
    ASSUME NEW tk, NEW pr, NEW tk2, NEW pr2, CutOnce(pr, tk), CutFrom(pr, pr2), Fewer(tk, tk2)
    PROVE  CutOnce(pr2, tk2)
BY DEF CutOnce, CutFrom, Fewer

LEMMA UncutOnce == ASSUME NEW pr, NEW tk, Uncut(pr) PROVE CutOnce(pr, tk)
BY DEF Uncut, CutOnce

-----------------------------------------------------------------------------
(* The parts of the actions. *)

(* checktasks drops the finished tasks. *)
LEMMA CheckTasks ==
    ASSUME InStep(task, proc, calllist)
    PROVE  Dropped(task, proc, calllist, TaskAfter, ProcAfter, CallAfter, Finished)
<1>1. /\ proc \in [Pids -> Process] /\ task \in [Tasks -> Task \cup {NoTask}]
      /\ calllist \in [0..MAXTASKS -> Call]
  BY DEF InStep, Typed
<1>2. Finished \subseteq Tasks /\ \A i \in Finished : task[i] # NoTask
  BY DEF Finished, TaskSlots
<1>3. \A p : p \in FinishedPids <=> \E i \in Finished : task[i].pid = p
  BY DEF FinishedPids
<1>4. \A p \in Pids : p \in FinishedPids => proc[p].child = TRUE
  BY <1>2, <1>3 DEF InStep, Agree, Serves
<1>5. \A p \in Pids : /\ [proc[p] EXCEPT !.lost = TRUE] \in Process
                      /\ [proc[p] EXCEPT !.lost = TRUE].lost = TRUE
                      /\ [proc[p] EXCEPT !.lost = TRUE].child = proc[p].child
  BY <1>1, ProcessUpdates
<1>6. /\ ProcAfter \in [Pids -> Process]
      /\ \A p \in Pids : IF p \in FinishedPids
                         THEN \/ ProcAfter[p] = NoProc
                              \/ ProcAfter[p].lost = TRUE /\ ProcAfter[p].child = TRUE
                         ELSE ProcAfter[p] = proc[p]
  BY <1>1, <1>4, <1>5, NotTask DEF ProcAfter
<1>7. /\ CallAfter \in [0..MAXTASKS -> Call]
      /\ \A i \in Tasks : IF calllist[i].pid \in FinishedPids
                          THEN CallAfter[i].calling = FALSE /\ CallAfter[i].pid = "none"
                          ELSE CallAfter[i] = calllist[i]
  <2> DEFINE q(i) == [calllist[i] EXCEPT !.calling = FALSE, !.pid = "none"]
  <2>1. \A i \in 0..MAXTASKS : q(i) \in Call /\ q(i).calling = FALSE /\ q(i).pid = "none"
    BY <1>1, CallCleared
  <2>2. CallAfter = [i \in 0..MAXTASKS |->
                       IF i < MAXTASKS /\ calllist[i].pid \in FinishedPids
                       THEN q(i) ELSE calllist[i]]
    BY DEF CallAfter
  <2> HIDE DEF q
  <2>3. QED
    BY <1>1, <2>1, <2>2, Indexes
<1>8. QED
  BY <1>2, <1>3, <1>6, <1>7 DEF Dropped, TaskAfter

LEMMA Checked ==
    ASSUME InStep(task, proc, calllist)
    PROVE  InStep(TaskAfter, ProcAfter, CallAfter)
BY CheckTasks, DropKeeps

LEMMA LaunchFailing ==
    ASSUME InStep(task, proc, calllist), LaunchFails, calllist' = CallAfter
    PROVE  InStep(task, proc, calllist)'
<1>1. InStep(TaskAfter, ProcAfter, CallAfter)
  BY Checked
<1>2. task' = TaskAfter /\ proc' = ProcAfter
  BY DEF LaunchFails
<1>3. QED
  BY <1>1, <1>2

LEMMA Launching ==
    ASSUME InStep(task, proc, calllist), NEW p \in Pids, NEW kind \in Kinds, NEW n \in Callable,
           kind = "mbfido" => \A i \in Tasks : task[i] # NoTask => task[i].kind # "mbfido",
           LaunchAs(p, kind, n)
    PROVE  /\ InStep(task', proc', CallAfter)
           /\ \E f \in Tasks : /\ task'[f] # NoTask /\ task'[f].pid = p
                               /\ task'[f].kind = kind /\ proc'[p].node = n
<1> DEFINE f == Min(FreeTasks)
<1>1. FreeTasks \subseteq Tasks /\ FreeTasks \subseteq Nat /\ FreeTasks # {}
  BY Indexes DEF FreeTasks, LaunchAs
<1>2. f \in FreeTasks
  BY <1>1, LeastMember
<1>3. f \in Tasks /\ TaskAfter[f] = NoTask /\ ProcAfter[p] = NoProc
  BY <1>2 DEF FreeTasks, FreePids, LaunchAs
<1>4. /\ task' = [TaskAfter EXCEPT ![f] = [pid |-> p, kind |-> kind]]
      /\ proc' = [ProcAfter EXCEPT ![p] = Child(kind, n)]
  BY DEF LaunchAs
<1>5. \A i \in Tasks : TaskAfter[i] # NoTask => TaskAfter[i] = task[i]
  BY DEF TaskAfter
<1> HIDE DEF f
<1>6. InStep(TaskAfter, ProcAfter, CallAfter)
  BY Checked
<1>7. kind = "mbfido" => \A i \in Tasks : TaskAfter[i] # NoTask => TaskAfter[i].kind # "mbfido"
  BY <1>5
<1> DEFINE tk2 == [TaskAfter EXCEPT ![f] = [pid |-> p, kind |-> kind]]
           pr2 == [ProcAfter EXCEPT ![p] = Child(kind, n)]
<1>8. /\ InStep(tk2, pr2, CallAfter)
      /\ tk2[f] # NoTask /\ tk2[f].pid = p /\ tk2[f].kind = kind /\ pr2[p].node = n
  BY <1>3, <1>6, <1>7, LaunchKeeps
<1>9. task' = tk2 /\ proc' = pr2
  BY <1>4
<1> HIDE DEF tk2, pr2
<1>10. QED
  BY <1>3, <1>8, <1>9

(* What checktasks leaves of the processes. *)
LEMMA ProcKept ==
    ASSUME InStep(task, proc, calllist), NEW p \in Pids
    PROVE  /\ ProcAfter[p].cut = TRUE => proc[p].cut = TRUE /\ ProcAfter[p].prg = proc[p].prg
           /\ p \notin FinishedPids => ProcAfter[p] = proc[p]
<1>1. proc[p] \in Process
  BY DEF InStep, Typed
<1> DEFINE q == [proc[p] EXCEPT !.lost = TRUE]
<1>2. q.cut = proc[p].cut /\ q.prg = proc[p].prg
  BY <1>1, ProcessUpdates
<1>3. ProcAfter[p] = proc[p] \/ ProcAfter[p] = NoProc \/ ProcAfter[p] = q
  BY DEF ProcAfter
<1> HIDE DEF q
<1>4. p \notin FinishedPids => ProcAfter[p] = proc[p]
  BY DEF ProcAfter
<1>5. QED
  BY <1>2, <1>3, <1>4, NoProcFields

(* A task that checktasks leaves is at work. *)
LEMMA TaskKept ==
    ASSUME InStep(task, proc, calllist), NEW i \in Tasks, TaskAfter[i] # NoTask
    PROVE  /\ task[i] # NoTask /\ TaskAfter[i] = task[i] /\ task[i].pid \in Pids
           /\ task[i].pid \in TaskPids /\ task[i].pid \notin FinishedPids
           /\ proc[task[i].pid].st = "run"
<1>1. task[i] # NoTask /\ TaskAfter[i] = task[i] /\ i \notin Finished
  BY DEF TaskAfter
<1>2. task[i] \in Task
  BY <1>1 DEF InStep, Typed
<1>3. task[i].pid \in Pids
  BY <1>2 DEF Task
<1>4. i \in TaskSlots
  BY <1>1 DEF TaskSlots
<1>5. task[i].pid \in TaskPids
  BY <1>4 DEF TaskPids
<1>6. task[i].pid \notin FinishedPids
  <2>1. \A j \in Finished : j \in Tasks /\ task[j] # NoTask
    BY DEF Finished, TaskSlots
  <2>2. QED
    BY <1>1, <2>1 DEF FinishedPids, InStep, Agree
<1>7. proc[task[i].pid].st \notin {"none", "zombie", "stopped"}
  <2>1. Serves(proc[task[i].pid], task[i].kind)
    BY <1>1 DEF InStep, Agree
  <2>2. QED
    BY <1>1, <1>4, <2>1 DEF Serves, Finished
<1>8. proc[task[i].pid].st = "run"
  BY <1>3, <1>7 DEF InStep, Typed, Process
<1>9. QED
  BY <1>1, <1>3, <1>5, <1>6, <1>8

(* A program that was forked when the signal came is in no table. *)
LEMMA CutOff ==
    ASSUME InStep(task, proc, calllist), Uncut(proc),
           NEW p \in Pids, NEW kind \in Kinds, NEW n \in Callable,
           kind = "mbfido" => \A i \in Tasks : task[i] # NoTask => task[i].kind # "mbfido",
           CutLaunch(p, kind, n)
    PROVE  InStep(task, proc, calllist)' /\ CutOnce(proc', task')
<1> DEFINE c == [Child(kind, n) EXCEPT !.cut = TRUE]
           pr2 == [ProcAfter EXCEPT ![p] = c]
<1>1. task' = TaskAfter /\ calllist' = CallAfter /\ proc' = pr2 /\ ProcAfter[p] = NoProc
  BY DEF CutLaunch, FreePids
<1>2. InStep(TaskAfter, ProcAfter, CallAfter)
  BY Checked
<1>3. /\ c \in Process /\ c.child = TRUE /\ c.cut = TRUE /\ c.prg = Program(kind)
      /\ c.node = n
  BY DEF Child, NoProc, Process, Program, Programs, Kinds
<1> HIDE DEF c
<1>4. ProcAfter \in [Pids -> Process]
  BY <1>2 DEF InStep, Typed
<1>5. pr2 \in [Pids -> Process] /\ pr2[p] = c /\ \A o \in Pids : o # p => pr2[o] = ProcAfter[o]
  BY <1>3, <1>4
<1> HIDE DEF pr2
<1>6. \A i \in Tasks : TaskAfter[i] # NoTask =>
         TaskAfter[i].pid \in Pids /\ TaskAfter[i].pid # p /\ TaskAfter[i].kind # "none"
  <2>1. \A i \in Tasks : TaskAfter[i] # NoTask => ProcAfter[TaskAfter[i].pid].st # "none"
    BY <1>2 DEF InStep, Agree, Serves
  <2>2. \A i \in Tasks : TaskAfter[i] # NoTask => TaskAfter[i] \in Task
    BY <1>2 DEF InStep, Typed
  <2>3. QED
    BY <1>1, <2>1, <2>2, NoProcFields DEF Task, Kinds
<1>7. Agree(TaskAfter, pr2)
  <2>1. \A i \in Tasks : TaskAfter[i] # NoTask => Serves(pr2[TaskAfter[i].pid], TaskAfter[i].kind)
    BY <1>2, <1>5, <1>6 DEF InStep, Agree
  <2>2. \A q \in Pids : Known(pr2[q]) => q # p /\ Known(ProcAfter[q])
    BY <1>3, <1>5 DEF Known
  <2>3. \A q \in Pids : pr2[q].prg = "mbfido" => pr2[q].child = TRUE
    BY <1>2, <1>3, <1>5 DEF InStep, Agree
  <2>4. QED
    BY <1>2, <2>1, <2>2, <2>3 DEF InStep, Agree
<1>8. ASSUME NEW i \in Tasks, CallAfter[i].node # NoNode
      PROVE  Backed(CallAfter[i], TaskAfter, pr2)
  <2>1. Backed(CallAfter[i], TaskAfter, ProcAfter)
    BY <1>2, <1>8 DEF InStep, Tracked
  <2>2. QED
    BY <1>5, <1>6, <2>1 DEF Backed
<1>9. InStep(TaskAfter, pr2, CallAfter)
  BY <1>2, <1>5, <1>7, <1>8 DEF InStep, Typed, Tracked
<1>10. \A o \in Pids : o # p => pr2[o].cut # TRUE
  BY <1>5, ProcKept DEF Uncut
<1>11. \A i \in Tasks : TaskAfter[i] # NoTask => TaskAfter[i] = task[i]
  BY DEF TaskAfter
<1>12. Program(kind) = "mbfido" => kind = "mbfido"
  BY DEF Program
<1>13. CutOnce(pr2, TaskAfter)
  <2>1. \A o, q \in Pids : pr2[o].cut = TRUE /\ pr2[q].cut = TRUE => o = q
    BY <1>10
  <2>2. \A o \in Pids : pr2[o].cut = TRUE /\ pr2[o].prg = "mbfido" =>
           \A i \in Tasks : TaskAfter[i] # NoTask => TaskAfter[i].kind # "mbfido"
    BY <1>3, <1>5, <1>10, <1>11, <1>12
  <2>3. QED
    BY <2>1, <2>2 DEF CutOnce
<1>14. QED
  BY <1>1, <1>9, <1>13

-----------------------------------------------------------------------------
(* Every step keeps the tables in step. *)

LEMMA ReapStep ==
    ASSUME InStep(task, proc, calllist),
           task' = TaskAfter, proc' = ProcAfter, calllist' = CallAfter
    PROVE  InStep(task, proc, calllist)'
<1>1. InStep(TaskAfter, ProcAfter, CallAfter)
  BY Checked
<1>2. QED
  BY <1>1

(* A tosser is due only when none runs. *)
LEMMA TosserAlone ==
    ASSUME NEW k \in DOMAIN Requests, Due(Requests[k])
    PROVE  /\ KindOf(Requests[k]) \in Kinds /\ NoNode \in Callable
           /\ KindOf(Requests[k]) = "mbfido" =>
                 \A i \in Tasks : task[i] # NoTask => task[i].kind # "mbfido"
<1>1. KindOf(Requests[k]) \in Kinds /\ NoNode \in Callable
  BY DEF KindOf, Kinds, Callable
<1>2. \/ runtasktype("mbfido") = 0 \/ TaskSlots = {}
  BY DEF Due
<1>3. QED
  BY <1>1, <1>2, NoneRuns DEF TaskSlots

LEMMA ServeStep ==
    ASSUME InStep(task, proc, calllist), NEW k \in DOMAIN Requests, Serve(k)
    PROVE  InStep(task, proc, calllist)'
<1> DEFINE r == Requests[k]
           kind == KindOf(r)
<1>1. calllist' = CallAfter /\ Due(r)
  BY DEF Serve, Serving
<1>2. CASE LaunchFails
  BY <1>1, <1>2, LaunchFailing
<1>3. ASSUME NEW p \in Pids, LaunchAs(p, kind, NoNode)
      PROVE  InStep(task, proc, calllist)'
  <2>1. kind \in Kinds /\ NoNode \in Callable
    BY <1>1, TosserAlone
  <2>2. kind = "mbfido" => \A i \in Tasks : task[i] # NoTask => task[i].kind # "mbfido"
    BY <1>1, TosserAlone
  <2> HIDE DEF kind
  <2>3. InStep(task', proc', CallAfter)
    BY <1>3, <2>1, <2>2, Launching
  <2>4. QED
    BY <1>1, <2>3
<1>4. QED
  BY <1>2, <1>3 DEF Serve

LEMMA ScanStep ==
    ASSUME InStep(task, proc, calllist), Scan
    PROVE  InStep(task, proc, calllist)'
<1>1. PICK found \in SUBSET Nodes : \E place \in Placements(found) :
         calllist' = [i \in 0..MAXTASKS |->
                 CASE i = MAXTASKS \/ i \in Kept(found) -> calllist[i]
                   [] i \in DOMAIN place -> [NoCall EXCEPT !.node = place[i]]
                   [] OTHER -> NoCall]
  BY DEF Scan
<1>2. PICK place \in Placements(found) :
         calllist' = [i \in 0..MAXTASKS |->
                 CASE i = MAXTASKS \/ i \in Kept(found) -> calllist[i]
                   [] i \in DOMAIN place -> [NoCall EXCEPT !.node = place[i]]
                   [] OTHER -> NoCall]
  BY <1>1
<1>3. \A i \in DOMAIN place : place[i] \in Callable
  <2>1. PICK S : place \in [S -> Addable(found)]
    BY DEF Placements
  <2>2. Addable(found) \subseteq Nodes
    BY DEF Addable
  <2>3. QED
    BY <2>1, <2>2 DEF Callable
<1>4. /\ proc \in [Pids -> Process] /\ task \in [Tasks -> Task \cup {NoTask}]
      /\ calllist \in [0..MAXTASKS -> Call]
  BY DEF InStep, Typed
<1> DEFINE q(i) == [NoCall EXCEPT !.node = place[i]]
<1>5. \A i \in DOMAIN place : q(i) \in Call /\ q(i).calling = FALSE /\ q(i).pid = "none"
  BY <1>3, CallOpened
<1>6. calllist' = [i \in 0..MAXTASKS |->
                 CASE i = MAXTASKS \/ i \in Kept(found) -> calllist[i]
                   [] i \in DOMAIN place -> q(i)
                   [] OTHER -> NoCall]
  BY <1>2
<1> HIDE DEF q
<1>7. \A i \in 0..MAXTASKS :
         \/ calllist'[i] = calllist[i]
         \/ /\ calllist'[i] \in Call
            /\ calllist'[i].calling = FALSE /\ calllist'[i].pid = "none"
  <2> SUFFICES ASSUME NEW i \in 0..MAXTASKS
               PROVE  \/ calllist'[i] = calllist[i]
                      \/ /\ calllist'[i] \in Call
                         /\ calllist'[i].calling = FALSE /\ calllist'[i].pid = "none"
    OBVIOUS
  <2>1. calllist'[i] = CASE i = MAXTASKS \/ i \in Kept(found) -> calllist[i]
                         [] i \in DOMAIN place -> q(i)
                         [] OTHER -> NoCall
    BY <1>6
  <2>2. calllist'[i] = calllist[i] \/ (i \in DOMAIN place /\ calllist'[i] = q(i))
        \/ calllist'[i] = NoCall
    BY <2>1
  <2>3. QED
    BY <1>5, <2>2, NotTask, NoCallFields
<1>8. calllist' \in [0..MAXTASKS -> Call]
  <2>1. \A i \in 0..MAXTASKS : calllist'[i] \in Call
    BY <1>4, <1>7
  <2>2. \E F : calllist' = F /\ DOMAIN F = 0..MAXTASKS /\ F = [i \in DOMAIN F |-> F[i]]
    BY <1>6
  <2>3. QED
    BY <2>1, <2>2
<1>9. task' = task /\ proc' = proc
  BY DEF Scan
<1>10. ASSUME NEW i \in Tasks, calllist'[i].node # NoNode PROVE Backed(calllist'[i], task, proc)
  <2>1. i \in 0..MAXTASKS
    BY Indexes
  <2>2. CASE calllist'[i] = calllist[i]
    BY <1>10, <2>2 DEF InStep, Tracked
  <2>3. CASE calllist'[i].calling = FALSE /\ calllist'[i].pid = "none"
    BY <2>3 DEF Backed
  <2>4. QED
    BY <1>7, <2>1, <2>2, <2>3
<1>11. Typed(task, proc, calllist') /\ Tracked(calllist', task, proc)
  BY <1>4, <1>8, <1>10 DEF Typed, Tracked
<1>12. InStep(task, proc, calllist')
  BY <1>11 DEF InStep
<1>13. QED
  BY <1>9, <1>12

LEMMA RotationType ==
    ASSUME TimersOK, NEW due, Turns(due) # {}
    PROVE  NextCall(due) \in 0..MAXTASKS
<1>1. Turns(due) \subseteq Nat
  BY Constants DEF Turns
<1>2. Min(Turns(due)) \in Nat
  BY <1>1, LeastMember
<1>3. call_entry \in Nat
  BY Constants DEF TimersOK
<1>4. QED
  BY <1>2, <1>3, Constants DEF NextCall, Rotation

LEMMA CallStep ==
    ASSUME InStep(task, proc, calllist), TimersOK, NEW due, CallNode(due)
    PROVE  InStep(task, proc, calllist)'
<1> DEFINE c == NextCall(due)
           n == calllist[c].node
<1>1. c \in 0..MAXTASKS
  BY RotationType DEF CallNode, Calling
<1>2. \/ LaunchFails /\ calllist' = CallAfter
      \/ \E p \in Pids :
            /\ LaunchAs(p, Mode(n), n)
            /\ calllist' = [CallAfter EXCEPT ![c] = [node |-> n, calling |-> TRUE, pid |-> p]]
  BY DEF CallNode
<1>3. n \in Callable
  BY <1>1 DEF InStep, Typed, Call
<1> HIDE DEF c, n
<1>4. ASSUME NEW p \in Pids, LaunchAs(p, Mode(n), n),
             calllist' = [CallAfter EXCEPT ![c] = [node |-> n, calling |-> TRUE, pid |-> p]]
      PROVE  InStep(task, proc, calllist)'
  <2> DEFINE e == [node |-> n, calling |-> TRUE, pid |-> p]
             kind == Mode(n)
  <2>1. kind \in Kinds /\ kind # "mbfido"
    BY DEF Mode, Kinds
  <2> HIDE DEF kind
  <2>2. /\ InStep(task', proc', CallAfter)
        /\ \E f \in Tasks : /\ task'[f] # NoTask /\ task'[f].pid = p
                            /\ task'[f].kind = kind /\ proc'[p].node = n
    BY <1>3, <1>4, <2>1, Launching DEF kind
  <2>3. e \in Call /\ e.node = n /\ e.calling = TRUE /\ e.pid = p
    BY <1>3 DEF Call
  <2> HIDE DEF e
  <2>4. Backed(e, task', proc')
    BY <2>2, <2>3 DEF Backed, kind
  <2>5. CallAfter \in [0..MAXTASKS -> Call]
    BY <2>2 DEF InStep, Typed
  <2>6. calllist' \in [0..MAXTASKS -> Call]
        /\ \A i \in 0..MAXTASKS : calllist'[i] = IF i = c THEN e ELSE CallAfter[i]
    BY <1>1, <1>4, <2>3, <2>5 DEF e
  <2>7. Tracked(calllist', task', proc')
    BY <2>2, <2>4, <2>6, Indexes DEF Tracked, InStep
  <2>8. InStep(task', proc', calllist')
    BY <2>2, <2>6, <2>7 DEF InStep, Typed
  <2>9. QED
    BY <2>8
<1>5. QED
  BY <1>2, <1>4, LaunchFailing

LEMMA CutStep ==
    ASSUME InStep(task, proc, calllist), TimersOK, Uncut(proc),
           NEW p \in Pids, ShutdownInLaunch(p)
    PROVE  InStep(task, proc, calllist)' /\ CutOnce(proc', task')
<1>1. ASSUME NEW k \in DOMAIN Requests, Serving(k), CutLaunch(p, KindOf(Requests[k]), NoNode)
      PROVE  InStep(task, proc, calllist)' /\ CutOnce(proc', task')
  BY <1>1, TosserAlone, CutOff DEF Serving
<1>2. ASSUME NEW due, Calling(due),
             CutLaunch(p, Mode(calllist[NextCall(due)].node), calllist[NextCall(due)].node)
      PROVE  InStep(task, proc, calllist)' /\ CutOnce(proc', task')
  <2> DEFINE n == calllist[NextCall(due)].node
  <2>1. n \in Callable
    BY <1>2, RotationType DEF Calling, InStep, Typed, Call
  <2>2. Mode(n) \in Kinds /\ Mode(n) # "mbfido"
    BY DEF Mode, Kinds
  <2>3. CutLaunch(p, Mode(n), n)
    BY <1>2
  <2> HIDE DEF n
  <2>4. QED
    BY <2>1, <2>2, <2>3, CutOff
<1>3. QED
  BY <1>1, <1>2 DEF ShutdownInLaunch

(* After SIGKILL the tasks that are left were sent it, and nothing else    *)
(* differs from what checktasks does.                                      *)
LEMMA KillStep ==
    ASSUME InStep(task, proc, calllist), KillTasks
    PROVE  /\ InStep(task, proc, calllist)'
           /\ AllKilled(task', proc')
           /\ \A p \in Pids : proc'[p].cut = TRUE => proc[p].cut = TRUE /\ proc'[p].prg = proc[p].prg
<1>1. InStep(TaskAfter, ProcAfter, CallAfter)
  BY Checked
<1>2. ProcAfter \in [Pids -> Process] /\ \A p \in Pids : ProcAfter[p].prg = "mbfido" => ProcAfter[p].child = TRUE
  BY <1>1 DEF InStep, Typed, Agree
<1> DEFINE q(p) == [ProcAfter[p] EXCEPT !.killed = TRUE]
<1>3. \A p \in Pids : /\ q(p) \in Process /\ q(p).st = ProcAfter[p].st
                      /\ q(p).child = ProcAfter[p].child /\ q(p).prg = ProcAfter[p].prg
                      /\ q(p).node = ProcAfter[p].node /\ q(p).lost = ProcAfter[p].lost
                      /\ q(p).cut = ProcAfter[p].cut /\ q(p).killed = TRUE
  BY <1>2, ProcessUpdates
<1>4. /\ task' = TaskAfter /\ calllist' = CallAfter
      /\ proc' = [p \in Pids |-> IF p \in TaskPids /\ Alive(p) THEN q(p) ELSE ProcAfter[p]]
  BY DEF KillTasks
<1> HIDE DEF q
<1>5. proc' \in [Pids -> Process]
  BY <1>2, <1>3, <1>4
<1>6. \A p \in Pids : proc'[p] = ProcAfter[p] \/ proc'[p] = q(p)
  BY <1>4
<1>7. Drifted(ProcAfter, proc')
  <2>1. \A p \in Pids : Drift(ProcAfter[p], q(p))
    BY <1>2, <1>3 DEF Drift, Known
  <2>2. \A p \in Pids : Drift(ProcAfter[p], ProcAfter[p])
    BY <1>2 DEF Drift
  <2>3. QED
    BY <1>5, <1>6, <2>1, <2>2 DEF Drifted
<1>8. InStep(task', proc', calllist')
  BY <1>1, <1>4, <1>7, DriftKeeps
<1>9. ASSUME NEW i \in Tasks, task'[i] # NoTask PROVE proc'[task'[i].pid].killed = TRUE
  <2>1. TaskAfter[i] # NoTask /\ task'[i] = TaskAfter[i]
    BY <1>4, <1>9
  <2>2. /\ task'[i] = task[i] /\ task[i].pid \in Pids /\ task[i].pid \in TaskPids
        /\ proc[task[i].pid].st = "run"
    BY <2>1, TaskKept
  <2>3. proc'[task[i].pid] = q(task[i].pid)
    BY <1>4, <2>2 DEF Alive
  <2>4. QED
    BY <1>3, <2>2, <2>3
<1>10. \A p \in Pids : proc'[p].cut = TRUE => proc[p].cut = TRUE /\ proc'[p].prg = proc[p].prg
  BY <1>3, <1>6, ProcKept
<1>11. QED
  BY <1>8, <1>9, <1>10 DEF AllKilled

LEMMA ProcessStep ==
    ASSUME InStep(task, proc, calllist), NEW p \in Pids,
           RegTCP(p) \/ CloseTCP(p) \/ Incoming(p) \/ Exit(p) \/ Stop(p) \/ Continue(p)
    PROVE  task' = task /\ calllist' = calllist /\ Drifted(proc, proc')
<1> DEFINE r == proc[p]
<1>1. r \in Process /\ r.child \in BOOLEAN /\ (r.prg = "mbfido" => r.child = TRUE)
  BY DEF InStep, Typed, Agree, Process
<1>2. task' = task /\ calllist' = calllist
  BY DEF RegTCP, CloseTCP, Incoming, Exit, Stop, Continue, jobVars
<1>3. ASSUME NEW q, proc' = [proc EXCEPT ![p] = q], Drift(r, q)
      PROVE  Drifted(proc, proc')
  BY <1>3, OneDrifts
<1>4. CASE RegTCP(p)
  <2> DEFINE q == [r EXCEPT !.told = TRUE]
  <2>1. proc' = [proc EXCEPT ![p] = q]
    BY <1>4 DEF RegTCP
  <2>2. q \in Process /\ q.st = r.st /\ q.child = r.child /\ q.prg = r.prg
        /\ q.node = r.node /\ q.lost = r.lost /\ q.cut = r.cut /\ q.killed = r.killed
    BY <1>1, ProcessUpdates
  <2> HIDE DEF q, r
  <2>3. Drift(r, q)
    BY <1>1, <2>2 DEF Drift, Known
  <2>4. QED
    BY <1>2, <1>3, <2>1, <2>3
<1>5. CASE CloseTCP(p)
  <2>1. proc' = proc /\ proc \in [Pids -> Process]
    BY <1>5 DEF CloseTCP, InStep, Typed
  <2>2. \A o \in Pids : Drift(proc[o], proc[o])
    BY <2>1 DEF Drift, InStep, Agree
  <2>3. QED
    BY <1>2, <2>1, <2>2 DEF Drifted
<1>6. CASE Incoming(p)
  <2> DEFINE q == [NoProc EXCEPT !.st = "run", !.prg = "mbcico"]
  <2>1. proc' = [proc EXCEPT ![p] = q] /\ r = NoProc
    BY <1>6 DEF Incoming
  <2>2. q \in Process /\ q.child = FALSE /\ q.prg = "mbcico" /\ q.cut = FALSE
    BY DEF NoProc, Process, Programs, Callable
  <2> HIDE DEF q
  <2>3. Drift(r, q)
    BY <2>1, <2>2, NoProcFields DEF Drift, Known
  <2>4. QED
    BY <1>2, <1>3, <2>1, <2>3
<1>7. ASSUME NEW s \in {"run", "stopped", "zombie"}, r.st \in {"run", "stopped"},
             proc' = [proc EXCEPT ![p] = [r EXCEPT !.st = s]]
      PROVE  Drifted(proc, proc')
  <2> DEFINE q == [r EXCEPT !.st = s]
  <2>1. q \in Process /\ q.st = s /\ q.child = r.child /\ q.prg = r.prg
        /\ q.node = r.node /\ q.lost = r.lost /\ q.cut = r.cut /\ q.killed = r.killed
    BY <1>1, StateUpdate
  <2>2. proc' = [proc EXCEPT ![p] = q]
    BY <1>7
  <2> HIDE DEF q
  <2>3. Drift(r, q)
    BY <1>1, <1>7, <2>1 DEF Drift, Known
  <2>4. QED
    BY <1>3, <2>2, <2>3
<1>8. CASE Exit(p)
  <2>1. r.st \in {"run", "stopped"} /\ proc' = [proc EXCEPT ![p] = Ended(r)]
    BY <1>8 DEF Exit
  <2>2. CASE r.child = TRUE
    <3>1. Ended(r) = [r EXCEPT !.st = "zombie"]
      BY <2>2 DEF Ended
    <3>2. QED
      BY <1>2, <1>7, <2>1, <3>1
  <2>3. CASE r.child = FALSE
    <3>1. Ended(r) = NoProc
      BY <2>3 DEF Ended
    <3>2. Drift(r, NoProc)
      BY <2>3, NoProcFields, NotTask DEF Drift, Known
    <3>3. QED
      BY <1>2, <1>3, <2>1, <3>1, <3>2
  <2>4. QED
    BY <1>1, <2>2, <2>3
<1>9. CASE Stop(p)
  <2>1. r.st = "run" /\ proc' = [proc EXCEPT ![p] = [r EXCEPT !.st = "stopped"]]
    BY <1>9 DEF Stop
  <2>2. QED
    BY <1>2, <1>7, <2>1
<1>10. CASE Continue(p)
  <2>1. r.st = "stopped" /\ proc' = [proc EXCEPT ![p] = [r EXCEPT !.st = "run"]]
    BY <1>10 DEF Continue
  <2>2. QED
    BY <1>2, <1>7, <2>1
<1>11. QED
  BY <1>2, <1>4, <1>5, <1>6, <1>8, <1>9, <1>10

LEMMA InStepNext ==
    ASSUME TaskInv, [Next]_vars
    PROVE  InStep(task, proc, calllist)'
<1>1. InStep(task, proc, calllist) /\ TimersOK
  BY DEF TaskInv
<1>2. ASSUME task' = task, proc' = proc, calllist' = calllist
      PROVE  InStep(task, proc, calllist)'
  BY <1>1, <1>2
<1>3. CASE UNCHANGED vars
  BY <1>2, <1>3 DEF vars, jobVars
<1>4. CASE \E second, minute \in {0, 1} : Turn(second, minute)
  BY <1>1, <1>4, ReapStep DEF Turn
<1>5. CASE \E k \in DOMAIN Requests : Serve(k)
  BY <1>1, <1>5, ServeStep
<1>6. CASE NothingDue \/ NotSlow \/ NoScan \/ \E due \in SUBSET (0..MAXTASKS) : NobodyToCall(due)
  BY <1>2, <1>6 DEF NothingDue, NotSlow, NoScan, NobodyToCall, jobVars
<1>7. CASE Scan
  BY <1>1, <1>7, ScanStep
<1>8. CASE \E due \in SUBSET (0..MAXTASKS) : CallNode(due)
  BY <1>1, <1>8, CallStep
<1>9. CASE AwaitTasks \/ Shutdown \/ LastCheck
  BY <1>1, <1>9, ReapStep DEF AwaitTasks, Shutdown, LastCheck, Reap
<1>10. CASE KillTasks \/ \E p \in Pids : ShutdownInLaunch(p)
  <2>1. ASSUME NEW p \in Pids, ShutdownInLaunch(p) PROVE Uncut(proc)
    BY <2>1 DEF ShutdownInLaunch, Serving, Calling, TaskInv, Dying
  <2>2. QED
    BY <1>1, <1>10, <2>1, KillStep, CutStep
<1>11. CASE \E p \in Pids : \/ RegTCP(p) \/ CloseTCP(p) \/ Incoming(p)
                            \/ Exit(p) \/ Stop(p) \/ Continue(p)
  <2>1. task' = task /\ calllist' = calllist /\ Drifted(proc, proc')
    BY <1>1, <1>11, ProcessStep
  <2>2. QED
    BY <1>1, <2>1, DriftKeeps
<1>12. CASE (\E r \in Asked : sem_set(r)) \/ Conditions
  BY <1>2, <1>12 DEF sem_set, Conditions, jobVars
<1>13. QED
  BY <1>3, <1>4, <1>5, <1>6, <1>7, <1>8, <1>9, <1>10, <1>11, <1>12 DEF Next, Loop, Environment

-----------------------------------------------------------------------------
(* The timers and the end. *)

LEMMA TimersNext ==
    ASSUME TimersOK, [Next]_vars
    PROVE  TimersOK'
<1>1. /\ RescanAfter \in BOOLEAN /\ PtimerAfter \in 0..PAUSETIME /\ PAUSETIME \in 0..PAUSETIME
      /\ TOSSWAIT_TIME \in 0..TOSSWAIT_TIME
  BY Constants DEF RescanAfter, PtimerAfter, TimersOK
<1>2. LaunchFails => fails' \in 0..MaxFails /\ ptimer' \in 0..PAUSETIME
  BY <1>1, Constants DEF LaunchFails, TimersOK
<1>3. \A p, kind, n : LaunchAs(p, kind, n) => fails' \in 0..MaxFails /\ ptimer' \in 0..PAUSETIME
  BY <1>1 DEF LaunchAs, TimersOK
<1>4. CASE UNCHANGED vars
  BY <1>4 DEF vars, jobVars, envVars, TimersOK
<1>5. ASSUME NEW second \in {0, 1}, NEW minute \in {0, 1}, Turn(second, minute) PROVE TimersOK'
  <2>1. ptimer' \in 0..PAUSETIME /\ tosswait' \in 0..TOSSWAIT_TIME
    BY <1>1, <1>5, Constants DEF Turn, TimersOK
  <2>2. rescan' \in BOOLEAN
    BY <1>1, <1>5 DEF Turn
  <2>3. online' \subseteq Pids
    BY <1>5 DEF Turn, TimersOK
  <2>4. QED
    BY <1>5, <2>1, <2>2, <2>3 DEF Turn, TimersOK, envVars
<1>6. ASSUME NEW k \in DOMAIN Requests, Serve(k) PROVE TimersOK'
  <2>1. fails' \in 0..MaxFails /\ ptimer' \in 0..PAUSETIME
    BY <1>2, <1>3, <1>6 DEF Serve
  <2>2. rescan' \in BOOLEAN /\ sema' \subseteq Asked /\ tosswait' \in 0..TOSSWAIT_TIME
    BY <1>1, <1>6 DEF Serve, TimersOK
  <2>3. QED
    BY <1>6, <2>1, <2>2 DEF Serve, TimersOK, envVars
<1>7. CASE NothingDue \/ NotSlow \/ NoScan \/ \E due \in SUBSET (0..MAXTASKS) : NobodyToCall(due)
  BY <1>7 DEF NothingDue, NotSlow, NoScan, NobodyToCall, jobVars, envVars, TimersOK
<1>8. CASE Scan
  BY <1>8 DEF Scan, envVars, TimersOK
<1>9. ASSUME NEW due \in SUBSET (0..MAXTASKS), CallNode(due) PROVE TimersOK'
  <2>1. call_entry' \in 0..MAXTASKS
    BY <1>9, RotationType DEF CallNode, Calling
  <2>2. fails' \in 0..MaxFails /\ ptimer' \in 0..PAUSETIME
    BY <1>2, <1>3, <1>9 DEF CallNode
  <2>3. QED
    BY <1>9, <2>1, <2>2 DEF CallNode, TimersOK, envVars
<1>10. CASE AwaitTasks \/ Shutdown \/ LastCheck
  BY <1>1, <1>10 DEF AwaitTasks, Shutdown, LastCheck, Reap, TimersOK, envVars
<1>11. CASE KillTasks \/ \E p \in Pids : ShutdownInLaunch(p)
  <2>1. \A p, kind, n : CutLaunch(p, kind, n) => TimersOK'
    BY <1>1 DEF CutLaunch, TimersOK, envVars
  <2>2. KillTasks => TimersOK'
    BY <1>1 DEF KillTasks, TimersOK, envVars
  <2>3. QED
    BY <1>11, <2>1, <2>2 DEF ShutdownInLaunch
<1>12. ASSUME NEW p \in Pids, \/ RegTCP(p) \/ CloseTCP(p) \/ Incoming(p)
                              \/ Exit(p) \/ Stop(p) \/ Continue(p)
       PROVE  TimersOK'
  <2>1. stops' \in 0..MaxStops
    BY <1>12, Constants DEF RegTCP, CloseTCP, Incoming, Exit, Stop, Continue, TimersOK, envVars
  <2>2. online' \subseteq Pids
    BY <1>12 DEF RegTCP, CloseTCP, Incoming, Exit, Stop, Continue, TimersOK
  <2>3. QED
    BY <1>12, <2>1, <2>2
    DEF RegTCP, CloseTCP, Incoming, Exit, Stop, Continue, TimersOK, envVars, jobVars
<1>13. CASE \E r \in Asked : sem_set(r)
  BY <1>1, <1>13 DEF sem_set, TimersOK
<1>14. CASE Conditions
  BY <1>14 DEF Conditions, TimersOK, jobVars
<1>15. QED
  BY <1>4, <1>5, <1>6, <1>7, <1>8, <1>9, <1>10, <1>11, <1>12, <1>13, <1>14
  DEF Next, Loop, Environment

(* Steps that change the processes only, or nothing. *)
LEMMA SteadyStep ==
    ASSUME TaskInv, task' = task, phase' = phase, Drifted(proc, proc')
    PROVE  /\ CutOnce(proc', task')
           /\ phase' \notin Dying => Uncut(proc')
           /\ phase' \in {"last", "over"} => AllKilled(task', proc')
<1>1. \A p \in Pids : proc'[p].cut = TRUE => proc[p].cut = TRUE /\ proc'[p].prg = proc[p].prg
  BY DEF Drifted, Drift
<1>2. CutOnce(proc', task')
  BY <1>1, CutKeeps DEF TaskInv, CutFrom, Fewer
<1>3. \A p \in Pids : proc'[p].cut \in BOOLEAN
  BY DEF Drifted, Process
<1>4. phase' \notin Dying => Uncut(proc')
  BY <1>1, <1>3 DEF TaskInv, Uncut
<1>5. ASSUME phase' \in {"last", "over"}, NEW i \in Tasks, task'[i] # NoTask
      PROVE  proc'[task'[i].pid].killed = TRUE
  <2>1. task[i] \in Task
    BY <1>5 DEF TaskInv, InStep, Typed
  <2>2. task[i].pid \in Pids
    BY <2>1 DEF Task
  <2>3. proc[task[i].pid].killed = TRUE /\ Serves(proc[task[i].pid], task[i].kind)
    BY <1>5 DEF TaskInv, AllKilled, InStep, Agree
  <2>4. QED
    BY <2>2, <2>3 DEF Drifted, Drift, Serves
<1>6. QED
  BY <1>2, <1>4, <1>5 DEF AllKilled

(* Steps of the loop before the end: nothing was cut off. *)
LEMMA LoopUncut ==
    ASSUME TaskInv, phase \notin Dying, [Next]_vars, ~\E p \in Pids : ShutdownInLaunch(p)
    PROVE  Uncut(proc')
<1>1. InStep(task, proc, calllist) /\ Uncut(proc) /\ proc \in [Pids -> Process]
  BY DEF TaskInv, InStep, Typed
<1>2. ProcAfter \in [Pids -> Process]
  BY <1>1, Checked DEF InStep, Typed
<1>3. \A p \in Pids : ProcAfter[p].cut \in BOOLEAN
  BY <1>2 DEF Process
<1>4. Uncut(ProcAfter)
  BY <1>1, <1>3, ProcKept DEF Uncut
<1>5. \A p, kind, n : LaunchAs(p, kind, n) => Uncut(proc')
  <2> SUFFICES ASSUME NEW p, NEW kind, NEW n, LaunchAs(p, kind, n) PROVE Uncut(proc')
    OBVIOUS
  <2> DEFINE c == Child(kind, n)
  <2>1. c.cut = FALSE
    BY DEF Child, NoProc
  <2>2. proc' = [ProcAfter EXCEPT ![p] = c]
    BY DEF LaunchAs
  <2> HIDE DEF c
  <2>3. QED
    BY <1>2, <1>4, <2>1, <2>2 DEF Uncut
<1>6. LaunchFails => Uncut(proc')
  BY <1>4 DEF LaunchFails
<1>7. CASE UNCHANGED vars
  BY <1>1, <1>7 DEF vars
<1>8. CASE (\E second, minute \in {0, 1} : Turn(second, minute)) \/ Shutdown
  BY <1>4, <1>8 DEF Turn, Shutdown, Reap
<1>9. CASE (\E k \in DOMAIN Requests : Serve(k)) \/ \E due \in SUBSET (0..MAXTASKS) : CallNode(due)
  BY <1>5, <1>6, <1>9 DEF Serve, CallNode
<1>10. CASE NothingDue \/ NotSlow \/ NoScan \/ Scan \/ \E due \in SUBSET (0..MAXTASKS) : NobodyToCall(due)
  BY <1>1, <1>10 DEF NothingDue, NotSlow, NoScan, Scan, NobodyToCall
<1>11. CASE AwaitTasks \/ KillTasks \/ LastCheck
  BY <1>11 DEF AwaitTasks, KillTasks, LastCheck, Dying
<1>12. CASE \E p \in Pids : \/ RegTCP(p) \/ CloseTCP(p) \/ Incoming(p)
                            \/ Exit(p) \/ Stop(p) \/ Continue(p)
  <2>1. Drifted(proc, proc')
    BY <1>1, <1>12, ProcessStep
  <2>2. \A p \in Pids : proc'[p].cut \in BOOLEAN
    BY <2>1 DEF Drifted, Process
  <2>3. QED
    BY <1>1, <2>1, <2>2 DEF Drifted, Drift, Uncut
<1>13. CASE (\E r \in Asked : sem_set(r)) \/ Conditions
  BY <1>1, <1>13 DEF sem_set, Conditions
<1>14. QED
  BY <1>7, <1>8, <1>9, <1>10, <1>11, <1>12, <1>13 DEF Next, Loop, Environment

(* A check of the tasks while mbtask shuts down. *)
LEMMA DyingCheck ==
    ASSUME TaskInv, Reap
    PROVE  /\ CutOnce(proc', task')
           /\ phase = "last" => AllKilled(task', proc')
           /\ ~RunningAfter => AllKilled(task', proc')
<1>1. InStep(task, proc, calllist) /\ CutOnce(proc, task) /\ (phase = "last" => AllKilled(task, proc))
  BY DEF TaskInv
<1>2. task' = TaskAfter /\ proc' = ProcAfter
  BY DEF Reap
<1>3. \A i \in Tasks : TaskAfter[i] # NoTask => TaskAfter[i] = task[i]
  BY DEF TaskAfter
<1>4. CutOnce(proc', task')
  <2>1. \A p \in Pids : ProcAfter[p].cut = TRUE => proc[p].cut = TRUE /\ ProcAfter[p].prg = proc[p].prg
    BY <1>1, ProcKept
  <2>2. CutFrom(proc, ProcAfter) /\ Fewer(task, TaskAfter)
    BY <1>3, <2>1 DEF CutFrom, Fewer
  <2>3. CutOnce(ProcAfter, TaskAfter)
    BY <1>1, <2>2, CutKeeps
  <2>4. QED
    BY <1>2, <2>3
<1>5. ASSUME phase = "last", NEW i \in Tasks, task'[i] # NoTask
      PROVE  proc'[task'[i].pid].killed = TRUE
  <2>1. TaskAfter[i] # NoTask /\ task'[i] = TaskAfter[i]
    BY <1>2, <1>5
  <2>2. /\ task[i] # NoTask /\ task'[i] = task[i] /\ task[i].pid \in Pids
        /\ task[i].pid \notin FinishedPids
    BY <1>1, <2>1, TaskKept
  <2>3. ProcAfter[task[i].pid] = proc[task[i].pid]
    BY <1>1, <2>2, ProcKept
  <2>4. QED
    BY <1>1, <1>2, <1>5, <2>2, <2>3 DEF AllKilled
<1>6. ~RunningAfter => \A i \in Tasks : TaskAfter[i] = NoTask
  BY DEF RunningAfter, TaskAfter, TaskSlots
<1>7. QED
  BY <1>2, <1>4, <1>5, <1>6 DEF AllKilled

(* The end: one program at most was cut off, and SIGKILL was sent. *)
LEMMA EndNext ==
    ASSUME TaskInv, [Next]_vars
    PROVE  /\ CutOnce(proc', task')
           /\ phase' \notin Dying => Uncut(proc')
           /\ phase' \in {"last", "over"} => AllKilled(task', proc')
<1>1. InStep(task, proc, calllist) /\ TimersOK
  BY DEF TaskInv
<1>2. CASE \E p \in Pids : ShutdownInLaunch(p)
  <2>1. PICK p \in Pids : ShutdownInLaunch(p)
    BY <1>2
  <2>2. Uncut(proc) /\ phase' = "term"
    BY <2>1 DEF ShutdownInLaunch, Serving, Calling, CutLaunch, TaskInv, Dying
  <2>3. QED
    BY <1>1, <2>1, <2>2, CutStep DEF Dying
<1>3. CASE /\ phase \notin Dying /\ ~\E p \in Pids : ShutdownInLaunch(p)
           /\ phase' \notin {"last", "over"}
  BY <1>3, LoopUncut, UncutOnce
<1>4. CASE Shutdown \/ AwaitTasks \/ LastCheck
  <2>1. CutOnce(proc', task')
    BY <1>4, DyingCheck DEF Shutdown, AwaitTasks, LastCheck
  <2>2. phase' \in Dying
    BY <1>4 DEF Shutdown, AwaitTasks, LastCheck, Dying
  <2>3. phase' \in {"last", "over"} => AllKilled(task', proc')
    BY <1>4, DyingCheck DEF Shutdown, AwaitTasks, LastCheck
  <2>4. QED
    BY <2>1, <2>2, <2>3
<1>5. CASE KillTasks
  <2>1. \A i \in Tasks : task'[i] # NoTask => task'[i] = task[i]
    BY <1>5 DEF KillTasks, TaskAfter
  <2>2. \A p \in Pids : proc'[p].cut = TRUE => proc[p].cut = TRUE /\ proc'[p].prg = proc[p].prg
    BY <1>1, <1>5, KillStep
  <2>3. CutOnce(proc, task)
    BY DEF TaskInv
  <2>4. CutFrom(proc, proc') /\ Fewer(task, task')
    BY <2>1, <2>2 DEF CutFrom, Fewer
  <2>5. CutOnce(proc', task')
    BY <2>3, <2>4, CutKeeps
  <2>6. QED
    BY <1>1, <1>5, <2>5, KillStep DEF KillTasks, Dying
<1>6. CASE \E p \in Pids : \/ RegTCP(p) \/ CloseTCP(p) \/ Incoming(p)
                           \/ Exit(p) \/ Stop(p) \/ Continue(p)
  <2>1. phase' = phase
    BY <1>6 DEF RegTCP, CloseTCP, Incoming, Exit, Stop, Continue
  <2>2. QED
    BY <1>1, <1>6, <2>1, ProcessStep, SteadyStep
<1>7. CASE UNCHANGED vars
  <2>1. task' = task /\ proc' = proc /\ phase' = phase
    BY <1>7 DEF vars, jobVars
  <2>2. QED
    BY <2>1 DEF TaskInv
<1>8. CASE (\E r \in Asked : sem_set(r)) \/ Conditions
  BY <1>2, <1>3, <1>8 DEF sem_set, Conditions, Dying
<1>9. CASE (\E second, minute \in {0, 1} : Turn(second, minute)) \/ NothingDue
           \/ (\E k \in DOMAIN Requests : Serve(k)) \/ NotSlow \/ NoScan \/ Scan
           \/ \E due \in SUBSET (0..MAXTASKS) : CallNode(due) \/ NobodyToCall(due)
  <2>1. phase \notin Dying /\ phase' \notin {"last", "over"}
    BY <1>9 DEF Turn, NothingDue, Serve, Serving, NotSlow, NoScan, Scan, CallNode, Calling,
                NobodyToCall, Dying
  <2>2. QED
    BY <1>2, <1>3, <2>1
<1>10. QED
  BY <1>2, <1>3, <1>4, <1>5, <1>6, <1>7, <1>8, <1>9 DEF Next, Loop, Environment

LEMMA TaskInit == Init => TaskInv
<1> SUFFICES ASSUME Init PROVE TaskInv
  OBVIOUS
<1>1. TimersOK
  BY Constants DEF Init, TimersOK
<1>2. proc \in [Pids -> Process] /\ \A p \in Pids : proc[p] = NoProc
  BY NotTask DEF Init
<1>3. task \in [Tasks -> Task \cup {NoTask}] /\ \A i \in Tasks : task[i] = NoTask
  BY DEF Init
<1>4. /\ calllist \in [0..MAXTASKS -> Call]
      /\ \A i \in 0..MAXTASKS : calllist[i].calling = FALSE /\ calllist[i].pid = "none"
  <2> DEFINE q(i) == [NoCall EXCEPT !.node = IF i = MAXTASKS THEN Behind ELSE NoNode]
  <2>1. \A i : q(i) \in Call /\ q(i).calling = FALSE /\ q(i).pid = "none"
    BY CallOpened DEF Callable
  <2>2. calllist = [i \in 0..MAXTASKS |-> q(i)]
    BY DEF Init
  <2> HIDE DEF q
  <2>3. QED
    BY <2>1, <2>2
<1>5. Agree(task, proc)
  BY <1>2, <1>3, NoProcFields DEF Agree, Known
<1>6. Single(task)
  BY <1>3 DEF Single
<1>7. Tracked(calllist, task, proc)
  BY <1>4, Indexes DEF Tracked, Backed
<1>8. Uncut(proc) /\ CutOnce(proc, task) /\ AllKilled(task, proc)
  BY <1>2, <1>3, NoProcFields DEF Uncut, CutOnce, AllKilled
<1>9. QED
  BY <1>1, <1>2, <1>3, <1>4, <1>5, <1>6, <1>7, <1>8 DEF TaskInv, InStep, Typed

LEMMA TaskNext == TaskInv /\ [Next]_vars => TaskInv'
<1> SUFFICES ASSUME TaskInv, [Next]_vars PROVE TaskInv'
  OBVIOUS
<1>1. InStep(task, proc, calllist)'
  BY InStepNext
<1>2. TimersOK'
  BY TimersNext DEF TaskInv
<1>3. /\ CutOnce(proc, task)'
      /\ (phase \notin Dying => Uncut(proc))'
      /\ (phase \in {"last", "over"} => AllKilled(task, proc))'
  BY EndNext
<1>4. QED
  BY <1>1, <1>2, <1>3 DEF TaskInv

(* The task table, the process table and the call list agree. *)
LEMMA TablesAgree == Spec => []TaskInv
BY TaskInit, TaskNext, PTL DEF Spec

-----------------------------------------------------------------------------
(* The theorems. *)

(* The tables and timers of the scheduler have their types, whatever its   *)
(* children, its users and the clock do.                                   *)
THEOREM TypesHold == Spec => []TypeOK
<1>1. TaskInv => TypeOK
  BY DEF TaskInv, TypeOK, TablesOK, InStep, Typed
<1>2. QED
  BY <1>1, TablesAgree, PTL

(* A node marked as being called has a mailer at it among the tasks.  The  *)
(* mark is not left behind when the mailer ends, is stopped or is killed,  *)
(* nor is it cleared by the end of another.                                *)
THEOREM MarksHaveMailers == Spec => []CallsTracked
<1>1. TaskInv => CallsTracked
  <2> SUFFICES ASSUME TaskInv, NEW i \in Entries
               PROVE  IF calllist[i].calling
                      THEN \E t \in TaskSlots :
                              /\ task[t].pid = calllist[i].pid
                              /\ task[t].kind = Mode(calllist[i].node)
                              /\ proc[task[t].pid].node = calllist[i].node
                      ELSE calllist[i].pid = "none"
    BY DEF CallsTracked
  <2>1. i \in Tasks /\ calllist[i].node # NoNode
    BY DEF Entries
  <2>2. calllist[i].calling \in BOOLEAN
    BY <2>1, Indexes DEF TaskInv, InStep, Typed, Call
  <2>3. Backed(calllist[i], task, proc)
    BY <2>1 DEF TaskInv, InStep, Tracked
  <2>4. CASE calllist[i].calling = TRUE
    <3>1. PICK t \in Tasks : /\ task[t] # NoTask /\ task[t].pid = calllist[i].pid
                             /\ task[t].kind = Mode(calllist[i].node)
                             /\ proc[calllist[i].pid].node = calllist[i].node
      BY <2>3, <2>4 DEF Backed
    <3>2. t \in TaskSlots
      BY <3>1 DEF TaskSlots
    <3>3. QED
      BY <2>4, <3>1, <3>2
  <2>5. CASE calllist[i].calling = FALSE
    BY <2>3, <2>5 DEF Backed
  <2>6. QED
    BY <2>2, <2>4, <2>5
<1>2. QED
  BY <1>1, TablesAgree, PTL

(* A child that lives and is not lost has a task, by the agreement of the tables. *)
LEMMA ChildHasTask ==
    ASSUME TaskInv, NEW p \in Pids, Alive(p), proc[p].child, ~proc[p].lost, ~proc[p].cut
    PROVE  \E i \in Tasks : task[i] # NoTask /\ task[i].pid = p
<1>1. proc[p].child \in BOOLEAN /\ proc[p].lost \in BOOLEAN /\ proc[p].cut \in BOOLEAN
  BY DEF TaskInv, InStep, Typed, Process
<1>2. proc[p].child = TRUE /\ proc[p].lost = FALSE /\ proc[p].cut = FALSE
  BY <1>1
<1>3. Known(proc[p])
  BY <1>2 DEF Known, Alive
<1>4. QED
  BY <1>3 DEF TaskInv, InStep, Agree

(* "Max. 1 mbfido task": two tossers never run at once, unless one of them *)
(* was stopped by a signal and so taken for finished.                      *)
THEOREM OneTosserRuns == Spec => []OneTosser
<1>1. TaskInv => OneTosser
  <2> SUFFICES ASSUME TaskInv PROVE OneTosser
    OBVIOUS
  <2> DEFINE S == {p \in Pids : Alive(p) /\ proc[p].prg = "mbfido" /\ ~proc[p].lost}
  <2>1. ASSUME NEW p \in S, ~proc[p].cut
        PROVE  \E i \in Tasks : task[i] # NoTask /\ task[i].pid = p /\ task[i].kind = "mbfido"
    <3>1. p \in Pids /\ Alive(p) /\ proc[p].prg = "mbfido" /\ ~proc[p].lost /\ ~proc[p].cut
      BY <2>1
    <3>2. proc[p].child
      BY <3>1 DEF TaskInv, InStep, Agree
    <3>3. PICK i \in Tasks : task[i] # NoTask /\ task[i].pid = p
      BY <3>1, <3>2, ChildHasTask
    <3>4. Program(task[i].kind) = "mbfido"
      BY <3>1, <3>3 DEF TaskInv, InStep, Agree, Serves
    <3>5. task[i].kind = "mbfido"
      BY <3>4 DEF Program
    <3>6. QED
      BY <3>3, <3>5
  <2>2. \A p, q \in S : p = q
    <3>1. \A p \in S : p \in Pids /\ proc[p].cut \in BOOLEAN /\ proc[p].prg = "mbfido"
      BY DEF TaskInv, InStep, Typed, Process
    <3>2. CutOnce(proc, task)
      BY DEF TaskInv
    <3>3. ASSUME NEW p \in S, NEW q \in S, proc[p].cut = TRUE PROVE p = q
      <4>1. proc[q].cut = TRUE
        BY <2>1, <3>1, <3>2, <3>3 DEF CutOnce
      <4>2. QED
        BY <3>1, <3>2, <3>3, <4>1 DEF CutOnce
    <3>4. ASSUME NEW p \in S, NEW q \in S, ~proc[p].cut, ~proc[q].cut PROVE p = q
      <4>1. PICK i \in Tasks : task[i] # NoTask /\ task[i].pid = p /\ task[i].kind = "mbfido"
        BY <2>1, <3>4
      <4>2. PICK j \in Tasks : task[j] # NoTask /\ task[j].pid = q /\ task[j].kind = "mbfido"
        BY <2>1, <3>4
      <4>3. i = j
        BY <4>1, <4>2 DEF TaskInv, InStep, Single
      <4>4. QED
        BY <4>1, <4>2, <4>3
    <3>5. QED
      BY <3>1, <3>3, <3>4
  <2> HIDE DEF S
  <2>3. CASE S = {}
    BY <2>3, FS_EmptySet DEF OneTosser, S
  <2>4. CASE S # {}
    <3>1. PICK p : S = {p}
      BY <2>2, <2>4
    <3>2. Cardinality(S) = 1
      BY <3>1, FS_Singleton
    <3>3. QED
      BY <3>2 DEF OneTosser, S
  <2>5. QED
    BY <2>3, <2>4
<1>2. QED
  BY <1>1, TablesAgree, PTL

(* die tries to kill what it knows of: when mbtask is over, a program that *)
(* it launched and that still lives was sent SIGKILL and is reported, was  *)
(* taken for finished before, or was forked when the signal came.          *)
THEOREM NothingOverlooked == Spec => []NoneOverlooked
<1>1. TaskInv => NoneOverlooked
  <2> SUFFICES ASSUME TaskInv, phase = "over", NEW p \in Pids, Alive(p), proc[p].child,
                      ~proc[p].lost, ~proc[p].cut
               PROVE  proc[p].killed /\ p \in TaskPids
    BY DEF NoneOverlooked
  <2>1. PICK i \in Tasks : task[i] # NoTask /\ task[i].pid = p
    BY ChildHasTask
  <2>2. i \in TaskSlots
    BY <2>1 DEF TaskSlots
  <2>3. p \in TaskPids
    BY <2>1, <2>2 DEF TaskPids
  <2>4. proc[p].killed = TRUE
    BY <2>1 DEF TaskInv, AllKilled
  <2>5. QED
    BY <2>3, <2>4
<1>2. QED
  BY <1>1, TablesAgree, PTL
=============================================================================
