----------------------------- MODULE WorkerPool ------------------------------
(***************************************************************************)
(* The bounded Argon2id worker pool of fortytwo-authd                      *)
(* (fortytwo-auth/src/authd_worker_pool.c).                                *)
(*                                                                         *)
(* One caller, the event loop, creates the pool, submits jobs, takes       *)
(* completions and destroys the pool; the worker threads pop pending jobs, *)
(* hash outside the mutex, push the completion and only then raise the     *)
(* eventfd semaphore.  A step of the model is one critical section of the  *)
(* pool's mutex or one system call on the eventfd.  A job is its job_id:   *)
(* its password, hash and token never influence the queues.                *)
(***************************************************************************)
EXTENDS Integers, Sequences, FiniteSets

CONSTANTS
    Workers,    \* the worker threads, thread_count of them
    Capacity,   \* limit on outstanding jobs
    MaxJobs     \* bound: job ids 1..MaxJobs stand for the 2^64 - 1 of the code

ASSUME PoolAssumption ==
    /\ IsFiniteSet(Workers) /\ Workers # {}
    /\ Capacity \in Nat /\ Capacity >= Cardinality(Workers)
    /\ MaxJobs \in Nat

VARIABLES
    pending,        \* pending_head .. pending_tail
    completed,      \* completed_head .. completed_tail
    outstanding,    \* the counter that submit_job compares with capacity
    next_job_id,
    stopping,
    tokens,         \* value of the eventfd semaphore completion_fd
    pc,             \* where each worker thread is in worker_main
    job,            \* the job a worker popped, 0 when it holds none
    caller          \* what the event loop is doing with the pool

vars == <<pending, completed, outstanding, next_job_id, stopping, tokens,
          pc, job, caller>>

JobIds == 1 .. MaxJobs

WorkerState == {"unborn", "lock", "waiting", "executing", "notify",
                "failing", "exited"}

CallerState == {"creating", "cleanup", "ready", "taking", "joining", "gone"}

TypeOK ==
    /\ pending \in Seq(JobIds)
    /\ completed \in Seq(JobIds)
    /\ outstanding \in Nat
    /\ next_job_id \in 1 .. MaxJobs + 1
    /\ stopping \in BOOLEAN
    /\ tokens \in Nat
    /\ pc \in [Workers -> WorkerState]
    /\ job \in [Workers -> JobIds \cup {0}]
    /\ caller \in CallerState
    /\ \A w \in Workers : pc[w] = "executing" <=> job[w] # 0

(* The workers that are in one of the states L. *)
At(L) == {w \in Workers : pc[w] \in L}

Elements(queue) == {queue[i] : i \in 1 .. Len(queue)}

(* size_t counters are only ever decremented when they are positive. *)
Decrement(n, k) == IF n > k THEN n - k ELSE 0

(* Mutant: the broadcast is forgotten. *)
WakeNone(at) == at

(* pthread_cond_broadcast: every waiter competes for the mutex again. *)
WakeAll(at) == [w \in Workers |-> IF at[w] = "waiting" THEN "lock" ELSE at[w]]

Init ==
    /\ pending = <<>>
    /\ completed = <<>>
    /\ outstanding = 0
    /\ next_job_id = 1
    /\ stopping = FALSE
    /\ tokens = 0
    /\ pc = [w \in Workers |-> "unborn"]
    /\ job = [w \in Workers |-> 0]
    /\ caller = "creating"

-----------------------------------------------------------------------------
(* The caller: authd_worker_pool_create. *)

(* pthread_create succeeds; the pool is exposed once all threads started. *)
StartThread(w) ==
    /\ caller = "creating"
    /\ pc[w] = "unborn"
    /\ pc' = [pc EXCEPT ![w] = "lock"]
    /\ caller' = IF At({"unborn"}) = {w} THEN "ready" ELSE "creating"
    /\ UNCHANGED <<pending, completed, outstanding, next_job_id, stopping,
                   tokens, job>>

(* pthread_create fails: pool_cleanup_partial stops the started threads. *)
StartFails ==
    /\ caller = "creating"
    /\ stopping' = TRUE
    /\ pc' = WakeAll(pc)
    /\ caller' = "cleanup"
    /\ UNCHANGED <<pending, completed, outstanding, next_job_id, tokens, job>>

(* pool_cleanup_partial joins the threads that were started. *)
CleanupJoined ==
    /\ caller = "cleanup"
    /\ \A w \in Workers : pc[w] \in {"unborn", "exited"}
    /\ caller' = "gone"
    /\ tokens' = 0
    /\ UNCHANGED <<pending, completed, outstanding, next_job_id, stopping,
                   pc, job>>

-----------------------------------------------------------------------------
(* The caller: submit_job, for both job types. *)

(* pthread_cond_signal wakes one waiter when there is one. *)
Signal ==
    IF At({"waiting"}) = {}
    THEN pc' = pc
    ELSE \E w \in At({"waiting"}) : pc' = [pc EXCEPT ![w] = "lock"]

(* Mutant: the limit is tested with > in place of >=. *)
SubmitOneTooMany ==
    /\ caller = "ready"
    /\ next_job_id \in JobIds
    /\ ~stopping
    /\ outstanding <= Capacity
    /\ pending' = Append(pending, next_job_id)
    /\ outstanding' = outstanding + 1
    /\ next_job_id' = next_job_id + 1
    /\ Signal
    /\ UNCHANGED <<completed, stopping, tokens, job, caller>>

(* AUTHD_WORKER_SUBMIT_OK; the other results leave the pool unchanged. *)
Submit ==
    /\ caller = "ready"
    /\ next_job_id \in JobIds
    /\ ~stopping
    /\ outstanding < Capacity
    /\ pending' = Append(pending, next_job_id)
    /\ outstanding' = outstanding + 1
    /\ next_job_id' = next_job_id + 1
    /\ Signal
    /\ UNCHANGED <<completed, stopping, tokens, job, caller>>

-----------------------------------------------------------------------------
(* The caller: authd_worker_pool_take_completion. *)

(* Mutant: the eventfd is created without EFD_SEMAPHORE, a read resets it. *)
ConsumeAllTokens ==
    /\ caller = "ready"
    /\ tokens > 0
    /\ tokens' = 0
    /\ caller' = "taking"
    /\ UNCHANGED <<pending, completed, outstanding, next_job_id, stopping,
                   pc, job>>

(* Mutant: poll() readiness is trusted and the descriptor is not read. *)
PeekToken ==
    /\ caller = "ready"
    /\ tokens > 0
    /\ caller' = "taking"
    /\ UNCHANGED <<pending, completed, outstanding, next_job_id, stopping,
                   tokens, pc, job>>

(* completion_consume reads one semaphore token, outside the mutex. *)
ConsumeToken ==
    /\ caller = "ready"
    /\ tokens > 0
    /\ tokens' = tokens - 1
    /\ caller' = "taking"
    /\ UNCHANGED <<pending, completed, outstanding, next_job_id, stopping,
                   pc, job>>

PopCompletion ==
    /\ caller = "taking"
    /\ caller' = "ready"
    /\ IF completed = <<>>
       THEN UNCHANGED <<completed, outstanding>>
       ELSE /\ completed' = Tail(completed)
            /\ outstanding' = Decrement(outstanding, 1)
    /\ UNCHANGED <<pending, next_job_id, stopping, tokens, pc, job>>

-----------------------------------------------------------------------------
(* The caller: authd_worker_pool_destroy. *)

DestroyStop ==
    /\ caller = "ready"
    /\ stopping' = TRUE
    /\ outstanding' = Decrement(outstanding, Len(pending))
    /\ pending' = <<>>
    /\ pc' = WakeAll(pc)
    /\ caller' = "joining"
    /\ UNCHANGED <<completed, next_job_id, tokens, job>>

DestroyJoined ==
    /\ caller = "joining"
    /\ \A w \in Workers : pc[w] = "exited"
    /\ completed' = <<>>
    /\ outstanding' = 0
    /\ tokens' = 0
    /\ caller' = "gone"
    /\ UNCHANGED <<pending, next_job_id, stopping, pc, job>>

-----------------------------------------------------------------------------
(* worker_main. *)

Wait(w) ==
    /\ pc[w] = "lock"
    /\ ~stopping
    /\ pending = <<>>
    /\ pc' = [pc EXCEPT ![w] = "waiting"]
    /\ UNCHANGED <<pending, completed, outstanding, next_job_id, stopping,
                   tokens, job, caller>>

(* POSIX lets pthread_cond_wait return without a signal. *)
SpuriousWakeup(w) ==
    /\ pc[w] = "waiting"
    /\ pc' = [pc EXCEPT ![w] = "lock"]
    /\ UNCHANGED <<pending, completed, outstanding, next_job_id, stopping,
                   tokens, job, caller>>

PopPending(w) ==
    /\ pc[w] = "lock"
    /\ ~stopping
    /\ pending # <<>>
    /\ job' = [job EXCEPT ![w] = Head(pending)]
    /\ pending' = Tail(pending)
    /\ pc' = [pc EXCEPT ![w] = "executing"]
    /\ UNCHANGED <<completed, outstanding, next_job_id, stopping, tokens,
                   caller>>

Exit(w) ==
    /\ pc[w] = "lock"
    /\ stopping
    /\ pc' = [pc EXCEPT ![w] = "exited"]
    /\ UNCHANGED <<pending, completed, outstanding, next_job_id, stopping,
                   tokens, job, caller>>

(* Mutant: a discarded job keeps its place in the count. *)
DiscardUncounted(w) ==
    /\ pc[w] = "executing"
    /\ stopping
    /\ job' = [job EXCEPT ![w] = 0]
    /\ pc' = [pc EXCEPT ![w] = "lock"]
    /\ UNCHANGED <<pending, completed, outstanding, next_job_id, stopping,
                   tokens, caller>>

(* execute_job has returned and the worker locks the mutex again. *)
Discard(w) ==
    /\ pc[w] = "executing"
    /\ stopping
    /\ outstanding' = Decrement(outstanding, 1)
    /\ job' = [job EXCEPT ![w] = 0]
    /\ pc' = [pc EXCEPT ![w] = "lock"]
    /\ UNCHANGED <<pending, completed, next_job_id, stopping, tokens, caller>>

PushCompletion(w) ==
    /\ pc[w] = "executing"
    /\ ~stopping
    /\ completed' = Append(completed, job[w])
    /\ job' = [job EXCEPT ![w] = 0]
    /\ pc' = [pc EXCEPT ![w] = "notify"]
    /\ UNCHANGED <<pending, outstanding, next_job_id, stopping, tokens, caller>>

Notify(w) ==
    /\ pc[w] = "notify"
    /\ tokens' = tokens + 1
    /\ pc' = [pc EXCEPT ![w] = "lock"]
    /\ UNCHANGED <<pending, completed, outstanding, next_job_id, stopping,
                   job, caller>>

(* write() on the eventfd fails; the worker has yet to stop the pool. *)
NotifyFails(w) ==
    /\ pc[w] = "notify"
    /\ pc' = [pc EXCEPT ![w] = "failing"]
    /\ UNCHANGED <<pending, completed, outstanding, next_job_id, stopping,
                   tokens, job, caller>>

StopAfterFailure(w) ==
    /\ pc[w] = "failing"
    /\ stopping' = TRUE
    /\ pc' = [WakeAll(pc) EXCEPT ![w] = "exited"]
    /\ UNCHANGED <<pending, completed, outstanding, next_job_id, tokens,
                   job, caller>>

-----------------------------------------------------------------------------
(* Every step a running worker takes of its own accord. *)
WorkerStep(w) ==
    \/ Wait(w) \/ PopPending(w) \/ Exit(w)
    \/ Discard(w) \/ PushCompletion(w)
    \/ Notify(w) \/ NotifyFails(w) \/ StopAfterFailure(w)

CallerStep ==
    \/ \E w \in Workers : StartThread(w)
    \/ StartFails
    \/ CleanupJoined
    \/ Submit
    \/ ConsumeToken
    \/ PopCompletion
    \/ DestroyStop
    \/ DestroyJoined

(* After the pool is gone nothing happens: its memory is freed. *)
Gone == caller = "gone" /\ UNCHANGED vars

Next ==
    \/ CallerStep
    \/ \E w \in Workers : WorkerStep(w) \/ SpuriousWakeup(w)
    \/ Gone

(***************************************************************************)
(* Threads are scheduled, pthread_join returns once the threads ended, and *)
(* the event loop drains the completion descriptor whenever poll() reports *)
(* it.  Nothing forces a submission, a destroy or a failure.               *)
(***************************************************************************)
Fairness ==
    /\ \A w \in Workers : WF_vars(WorkerStep(w))
    /\ WF_vars(ConsumeToken) /\ WF_vars(PopCompletion)
    /\ WF_vars(CleanupJoined) /\ WF_vars(DestroyJoined)

Spec == Init /\ [][Next]_vars

FairSpec == Spec /\ Fairness

-----------------------------------------------------------------------------
(* Properties. *)

Held == Elements(pending) \cup Elements(completed)
          \cup {job[w] : w \in At({"executing"})}

(***************************************************************************)
(* The counter that submit_job compares with the capacity counts exactly   *)
(* the jobs in the two queues and in the hands of workers, so admission is *)
(* neither refused nor granted by mistake, also while the pool stops, when *)
(* a worker discards its job and the destroyer detaches the pending ones.  *)
(***************************************************************************)
Conservation ==
    outstanding = Len(pending) + Len(completed) + Cardinality(At({"executing"}))

(***************************************************************************)
(* The eventfd never promises a completion that is not queued: the token   *)
(* is raised after the push, so the pop that follows a consumed token      *)
(* finds a job.                                                            *)
(***************************************************************************)
TokensBacked ==
    tokens + (IF caller = "taking" THEN 1 ELSE 0) <= Len(completed)

(***************************************************************************)
(* While the pool runs, every queued completion has its token, or a worker *)
(* that is between pushing it and raising it: poll() never sleeps on a     *)
(* completion that nobody will announce.                                   *)
(***************************************************************************)
NoStrandedCompletion ==
    ~stopping =>
        Len(completed) = tokens + (IF caller = "taking" THEN 1 ELSE 0)
                           + Cardinality(At({"notify", "failing"}))

(***************************************************************************)
(* An accepted job is handed to the event loop, unless the pool stops.     *)
(***************************************************************************)
EveryJobLeaves ==
    \A j \in JobIds : (j \in Held) ~> (j \notin Held \/ stopping)

(* authd_worker_pool_destroy, and a failed create, return. *)
ShutdownReturns == caller \in {"joining", "cleanup"} ~> caller = "gone"

(* The pool implements the ledger its caller relies on. *)
Ledger == INSTANCE JobLedger WITH
    Jobs <- JobIds,
    fresh <- next_job_id .. MaxJobs,
    working <- Elements(pending) \cup {job[w] : w \in At({"executing"})},
    ready <- Elements(completed),
    stopped <- stopping

LedgerSpec == Ledger!Spec
=============================================================================
