------------------------------ MODULE JobLedger ------------------------------
(***************************************************************************)
(* What the bounded password worker pool promises to its caller, the       *)
(* single-threaded event loop of fortytwo-authd: a job that was accepted   *)
(* becomes ready once and is handed out at most once, never more than      *)
(* Capacity jobs are held, and once the pool stops it holds no new job.    *)
(* WorkerPool implements this specification; AuthServer uses the pool      *)
(* through it.                                                             *)
(***************************************************************************)
EXTENDS Integers, FiniteSets

CONSTANTS
    Jobs,       \* the jobs that may be submitted
    Capacity    \* how many of them the pool holds at most

VARIABLES
    fresh,      \* jobs never submitted so far
    working,    \* accepted jobs that no worker has finished
    ready,      \* finished jobs that the event loop has not taken
    stopped     \* the pool no longer accepts jobs

vars == <<fresh, working, ready, stopped>>

Held == working \cup ready

Init ==
    /\ fresh = Jobs
    /\ working = {}
    /\ ready = {}
    /\ stopped = FALSE

Accept(j) ==
    /\ ~stopped
    /\ j \in fresh
    /\ Cardinality(Held) < Capacity
    /\ fresh' = fresh \ {j}
    /\ working' = working \cup {j}
    /\ UNCHANGED <<ready, stopped>>

Finish(j) ==
    /\ ~stopped
    /\ j \in working
    /\ working' = working \ {j}
    /\ ready' = ready \cup {j}
    /\ UNCHANGED <<fresh, stopped>>

Take(j) ==
    /\ j \in ready
    /\ ready' = ready \ {j}
    /\ UNCHANGED <<fresh, working, stopped>>

(* Stopping and the shutdown that follows only ever drop jobs. *)
Drop ==
    /\ stopped' = TRUE
    /\ working' \subseteq working
    /\ ready' \subseteq ready
    /\ UNCHANGED fresh

Next ==
    \/ \E j \in Jobs : Accept(j) \/ Finish(j) \/ Take(j)
    \/ Drop

Spec == Init /\ [][Next]_vars
=============================================================================
