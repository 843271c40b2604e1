-------------------------- MODULE AuthdLimits_proofs --------------------------
(***************************************************************************)
(* Proofs about the two resources that fortytwo-authd bounds, the Argon2id *)
(* worker pool and the table of the registration limiter.                  *)
(*                                                                         *)
(* The pool: for every finite set of workers, every capacity and every     *)
(* number of jobs.  The limiter: for every table size, window and number   *)
(* of attempts it enforces its rate and tells the exact time to retry.     *)
(*                                                                         *)
(* The allowed attempts of an address fall into runs, one per entry the    *)
(* address had.  A run has at most Attempts members and the next one       *)
(* starts a window after it started.  Only the last run has an entry, and  *)
(* nothing is known of the earlier ones but their times: the inductive     *)
(* invariant says that Attempts attempts before the start of a run reach   *)
(* back a whole window.                                                    *)
(***************************************************************************)
EXTENDS WorkerPool, RegistrationLimit, FiniteSetTheorems, SequenceTheorems,
        WellFoundedInduction, TLAPS

-----------------------------------------------------------------------------
(* THE WORKER POOL *)

Where(f, L) == {w \in Workers : f[w] \in L}

Taking == IF caller = "taking" THEN 1 ELSE 0

(***************************************************************************)
(* The inductive invariant.  TokensBacked alone is not inductive: a worker *)
(* that has pushed and not yet notified will raise a token, so it has to   *)
(* be counted; Conservation needs that no job is pending once destroy has  *)
(* detached the queue.                                                     *)
(***************************************************************************)
TokenAccount ==
    /\ tokens + Taking + Cardinality(At({"notify", "failing"}))
         <= Len(completed)
    /\ ~stopping =>
         Len(completed) = tokens + Taking
                            + Cardinality(At({"notify", "failing"}))

Drained ==
    /\ caller = "joining" => pending = <<>>
    /\ caller = "cleanup" => stopping

IInv == TypeOK /\ Conservation /\ TokenAccount /\ Drained

-----------------------------------------------------------------------------
LEMMA WhereFinite ==
    ASSUME NEW f, NEW L
    PROVE  /\ IsFiniteSet(Where(f, L))
           /\ Cardinality(Where(f, L)) \in Nat
<1>1. Where(f, L) \in SUBSET Workers
  BY DEF Where
<1>2. IsFiniteSet(Where(f, L))
  BY <1>1, PoolAssumption, FS_Subset
<1> QED
  BY <1>2, FS_CardinalityType

(* f and g differ at most in where worker w is. *)
OneMoves(f, g, w) ==
    /\ f \in [Workers -> WorkerState]
    /\ g \in [Workers -> WorkerState]
    /\ \A v \in Workers \ {w} : g[v] = f[v]

(* Moving one worker changes the count of the workers in L by what it left *)
(* and what it entered.                                                    *)
LEMMA WhereMoved ==
    ASSUME NEW w \in Workers, NEW f, NEW g, OneMoves(f, g, w), NEW L
    PROVE  /\ f[w] \in L /\ g[w] \notin L =>
                Cardinality(Where(g, L)) = Cardinality(Where(f, L)) - 1
           /\ f[w] \notin L /\ g[w] \in L =>
                Cardinality(Where(g, L)) = Cardinality(Where(f, L)) + 1
           /\ (f[w] \in L <=> g[w] \in L) =>
                Cardinality(Where(g, L)) = Cardinality(Where(f, L))
<1> USE DEF OneMoves
<1> DEFINE Rest == Where(f, L) \ {w}
<1>1. Where(f, L) = IF f[w] \in L THEN Rest \cup {w} ELSE Rest
  BY DEF Where
<1>2. Where(g, L) = IF g[w] \in L THEN Rest \cup {w} ELSE Rest
  BY DEF Where
<1>3. IsFiniteSet(Rest) /\ w \notin Rest
  BY WhereFinite, FS_RemoveElement
<1>4. /\ Cardinality(Rest) \in Nat
      /\ Cardinality(Rest \cup {w}) = Cardinality(Rest) + 1
  BY <1>3, FS_CardinalityType, FS_AddElement
<1> HIDE DEF Rest
<1> QED
  BY <1>1, <1>2, <1>4

(* A broadcast moves workers from "waiting" to "lock" only. *)
LEMMA WhereWoken ==
    ASSUME NEW f \in [Workers -> WorkerState], NEW L,
           "waiting" \notin L, "lock" \notin L
    PROVE  Where(WakeAll(f), L) = Where(f, L)
  BY DEF Where, WakeAll

LEMMA DecrementExact ==
    ASSUME NEW n \in Nat, NEW k \in Nat
    PROVE  /\ Decrement(n, k) \in Nat
           /\ n >= k => Decrement(n, k) = n - k
  BY DEF Decrement

LEMMA WakeAllType ==
    ASSUME NEW f \in [Workers -> WorkerState]
    PROVE  /\ WakeAll(f) \in [Workers -> WorkerState]
           /\ \A w \in Workers :
                WakeAll(f)[w] = "executing" <=> f[w] = "executing"
  BY DEF WakeAll, WorkerState
-----------------------------------------------------------------------------
LEMMA Typing ==
    ASSUME TypeOK, [Next]_vars
    PROVE  TypeOK'
<1> USE PoolAssumption DEF TypeOK, JobIds, WorkerState, CallerState
<1>1. CASE \E w \in Workers : StartThread(w)
  BY <1>1 DEF StartThread
<1>2. CASE StartFails
  <2>1. /\ pc' \in [Workers -> WorkerState]
        /\ \A w \in Workers : pc'[w] = "executing" <=> pc[w] = "executing"
    BY <1>2, WakeAllType DEF StartFails
  <2> QED
    BY <1>2, <2>1 DEF StartFails
<1>3. CASE CleanupJoined
  BY <1>3 DEF CleanupJoined
<1>4. CASE Submit
  <2>1. /\ pc' \in [Workers -> WorkerState]
        /\ \A w \in Workers : pc'[w] = "executing" <=> pc[w] = "executing"
    BY <1>4 DEF Submit, Signal, At
  <2>2. outstanding' \in Nat /\ next_job_id' \in 1 .. MaxJobs + 1
    BY <1>4 DEF Submit
  <2> QED
    BY <1>4, <2>1, <2>2 DEF Submit
<1>5. CASE ConsumeToken
  BY <1>5 DEF ConsumeToken
<1>6. CASE PopCompletion
  <2>1. completed' \in Seq(JobIds)
    BY <1>6, HeadTailProperties DEF PopCompletion
  <2>2. outstanding' \in Nat
    BY <1>6, DecrementExact DEF PopCompletion
  <2> QED
    BY <1>6, <2>1, <2>2 DEF PopCompletion
<1>7. CASE DestroyStop
  <2>1. outstanding' \in Nat
    BY <1>7, DecrementExact, LenProperties DEF DestroyStop
  <2>2. /\ pc' \in [Workers -> WorkerState]
        /\ \A w \in Workers : pc'[w] = "executing" <=> pc[w] = "executing"
    BY <1>7, WakeAllType DEF DestroyStop
  <2> QED
    BY <1>7, <2>1, <2>2 DEF DestroyStop
<1>8. CASE DestroyJoined
  BY <1>8 DEF DestroyJoined
<1>9. ASSUME NEW w \in Workers, WorkerStep(w) \/ SpuriousWakeup(w)
      PROVE  TypeOK'
  <2>1. CASE Wait(w) \/ Exit(w) \/ SpuriousWakeup(w) \/ NotifyFails(w)
    BY <2>1 DEF Wait, Exit, SpuriousWakeup, NotifyFails
  <2>2. CASE PopPending(w)
    <3>1. Head(pending) \in JobIds /\ pending' \in Seq(JobIds)
      BY <2>2, HeadTailProperties DEF PopPending
    <3> QED
      BY <2>2, <3>1 DEF PopPending
  <2>3. CASE Discard(w)
    <3>1. outstanding' \in Nat
      BY <2>3, DecrementExact DEF Discard
    <3> QED
      BY <2>3, <3>1 DEF Discard
  <2>4. CASE PushCompletion(w)
    <3>1. job[w] \in JobIds
      BY <2>4 DEF PushCompletion
    <3>2. completed' \in Seq(JobIds)
      BY <2>4, <3>1 DEF PushCompletion
    <3> QED
      BY <2>4, <3>2 DEF PushCompletion
  <2>5. CASE Notify(w)
    BY <2>5 DEF Notify
  <2>6. CASE StopAfterFailure(w)
    <3>1. /\ pc' \in [Workers -> WorkerState]
          /\ \A v \in Workers : pc'[v] = "executing" <=> pc[v] = "executing"
      BY <2>6, WakeAllType DEF StopAfterFailure
    <3> QED
      BY <2>6, <3>1 DEF StopAfterFailure
  <2> QED
    BY <1>9, <2>1, <2>2, <2>3, <2>4, <2>5, <2>6 DEF WorkerStep
<1>10. CASE UNCHANGED vars
  BY <1>10 DEF vars
<1> QED
  BY <1>1, <1>2, <1>3, <1>4, <1>5, <1>6, <1>7, <1>8, <1>9, <1>10
  DEF Next, CallerStep, Gone

LEMMA InitType == Init => TypeOK
<1> SUFFICES ASSUME Init PROVE TypeOK
  OBVIOUS
<1>1. pending \in Seq(JobIds) /\ completed \in Seq(JobIds)
  BY DEF Init
<1>2. outstanding \in Nat /\ tokens \in Nat /\ next_job_id \in 1 .. MaxJobs + 1
  BY PoolAssumption DEF Init
<1>3. stopping \in BOOLEAN /\ caller \in CallerState
  BY DEF Init, CallerState
<1>4. /\ pc \in [Workers -> WorkerState]
      /\ job \in [Workers -> JobIds \cup {0}]
      /\ \A w \in Workers : pc[w] = "executing" <=> job[w] # 0
  BY DEF Init, WorkerState
<1> QED
  BY <1>1, <1>2, <1>3, <1>4 DEF TypeOK

(* The counters of the pool never go below zero, job ids stay in range and *)
(* a worker holds a job exactly while it executes one (worker_main).       *)
THEOREM TypeCorrect == Spec => []TypeOK
<1> QED
  BY InitType, Typing, PTL DEF Spec

-----------------------------------------------------------------------------
(***************************************************************************)
(* The two counts of workers the invariant speaks of: those that hold a    *)
(* job and those that have pushed a completion without announcing it.      *)
(***************************************************************************)
Executing(f) == Cardinality(Where(f, {"executing"}))
Owing(f) == Cardinality(Where(f, {"notify", "failing"}))

LEMMA CountsAreNat ==
    ASSUME NEW f
    PROVE  Executing(f) \in Nat /\ Owing(f) \in Nat
  BY WhereFinite DEF Executing, Owing

LEMMA AtIsWhere ==
    /\ Cardinality(At({"executing"})) = Executing(pc)
    /\ Cardinality(At({"notify", "failing"})) = Owing(pc)
  BY DEF At, Where, Executing, Owing

LEMMA CountsMoved ==
    ASSUME NEW w \in Workers, NEW f, NEW g, OneMoves(f, g, w)
    PROVE  /\ f[w] = "executing" /\ g[w] # "executing" =>
                Executing(g) = Executing(f) - 1
           /\ f[w] # "executing" /\ g[w] = "executing" =>
                Executing(g) = Executing(f) + 1
           /\ (f[w] = "executing" <=> g[w] = "executing") =>
                Executing(g) = Executing(f)
           /\ f[w] \in {"notify", "failing"} /\ g[w] \notin {"notify", "failing"} =>
                Owing(g) = Owing(f) - 1
           /\ f[w] \notin {"notify", "failing"} /\ g[w] \in {"notify", "failing"} =>
                Owing(g) = Owing(f) + 1
           /\ (f[w] \in {"notify", "failing"} <=> g[w] \in {"notify", "failing"}) =>
                Owing(g) = Owing(f)
  BY WhereMoved DEF Executing, Owing

LEMMA CountsWoken ==
    ASSUME NEW f \in [Workers -> WorkerState]
    PROVE  Executing(WakeAll(f)) = Executing(f) /\ Owing(WakeAll(f)) = Owing(f)
  BY WhereWoken DEF Executing, Owing

LEMMA CallerCounts ==
    ASSUME TypeOK, CallerStep
    PROVE  Executing(pc') = Executing(pc) /\ Owing(pc') = Owing(pc)
<1> USE DEF TypeOK
<1>1. CASE \E w \in Workers : StartThread(w)
  <2> PICK w \in Workers : StartThread(w)
    BY <1>1
  <2>1. OneMoves(pc, pc', w) /\ pc[w] = "unborn" /\ pc'[w] = "lock"
    BY DEF StartThread, OneMoves, WorkerState
  <2> QED
    BY <2>1, CountsMoved
<1>2. CASE StartFails
  BY <1>2, CountsWoken DEF StartFails
<1>3. CASE CleanupJoined \/ ConsumeToken \/ PopCompletion \/ DestroyJoined
  BY <1>3 DEF CleanupJoined, ConsumeToken, PopCompletion, DestroyJoined
<1>4. CASE Submit
  <2>1. CASE pc' = pc
    BY <2>1
  <2>2. CASE \E w \in At({"waiting"}) : pc' = [pc EXCEPT ![w] = "lock"]
    <3> PICK w \in At({"waiting"}) : pc' = [pc EXCEPT ![w] = "lock"]
      BY <2>2
    <3>1. w \in Workers /\ pc[w] = "waiting"
      BY DEF At
    <3>2. OneMoves(pc, pc', w) /\ pc'[w] = "lock"
      BY <3>1 DEF OneMoves, WorkerState
    <3> QED
      BY <3>1, <3>2, CountsMoved, ZenonT(60)
  <2> QED
    BY <1>4, <2>1, <2>2 DEF Submit, Signal
<1>5. CASE DestroyStop
  BY <1>5, CountsWoken DEF DestroyStop
<1> QED
  BY <1>1, <1>2, <1>3, <1>4, <1>5 DEF CallerStep

LEMMA WorkerMoves ==
    ASSUME TypeOK, NEW w \in Workers
    PROVE  /\ \/ Wait(w) \/ Exit(w) \/ SpuriousWakeup(w) \/ PopPending(w)
              \/ Discard(w) \/ PushCompletion(w) \/ Notify(w) \/ NotifyFails(w)
              => OneMoves(pc, pc', w)
           /\ StopAfterFailure(w) => OneMoves(WakeAll(pc), pc', w)
  BY WakeAllType, ZenonT(60)
  DEF TypeOK, OneMoves, WorkerState, Wait, PopPending, Exit, Discard,
      PushCompletion, Notify, NotifyFails, StopAfterFailure, SpuriousWakeup

LEMMA WorkerCounts ==
    ASSUME TypeOK, NEW w \in Workers,
           NEW e, NEW n, e = Executing(pc), n = Owing(pc),
           NEW f, NEW o, f = Executing(pc'), o = Owing(pc')
    PROVE  /\ Wait(w) \/ Exit(w) \/ SpuriousWakeup(w) => f = e /\ o = n
           /\ PopPending(w) => f = e + 1 /\ o = n
           /\ Discard(w) => f = e - 1 /\ o = n
           /\ PushCompletion(w) => f = e - 1 /\ o = n + 1
           /\ Notify(w) => f = e /\ o = n - 1
           /\ NotifyFails(w) => f = e /\ o = n
           /\ StopAfterFailure(w) => f = e /\ o = n - 1
<1>1. ASSUME Wait(w) \/ Exit(w) \/ SpuriousWakeup(w) PROVE f = e /\ o = n
  <2>1. OneMoves(pc, pc', w)
    BY <1>1, WorkerMoves
  <2>2. pc[w] \in {"lock", "waiting"} /\ pc'[w] \in {"lock", "waiting", "exited"}
    BY <1>1 DEF Wait, Exit, SpuriousWakeup, TypeOK
  <2> QED
    BY <2>1, <2>2, CountsMoved
<1>2. ASSUME PopPending(w) PROVE f = e + 1 /\ o = n
  <2>1. OneMoves(pc, pc', w)
    BY <1>2, WorkerMoves
  <2>2. pc[w] = "lock" /\ pc'[w] = "executing"
    BY <1>2 DEF PopPending, TypeOK
  <2> QED
    BY <2>1, <2>2, CountsMoved
<1>3. ASSUME Discard(w) PROVE f = e - 1 /\ o = n
  <2>1. OneMoves(pc, pc', w)
    BY <1>3, WorkerMoves
  <2>2. pc[w] = "executing" /\ pc'[w] = "lock"
    BY <1>3 DEF Discard, TypeOK
  <2> QED
    BY <2>1, <2>2, CountsMoved
<1>4. ASSUME PushCompletion(w) PROVE f = e - 1 /\ o = n + 1
  <2>1. OneMoves(pc, pc', w)
    BY <1>4, WorkerMoves
  <2>2. pc[w] = "executing" /\ pc'[w] = "notify"
    BY <1>4 DEF PushCompletion, TypeOK
  <2> QED
    BY <2>1, <2>2, CountsMoved
<1>5. ASSUME Notify(w) PROVE f = e /\ o = n - 1
  <2>1. OneMoves(pc, pc', w)
    BY <1>5, WorkerMoves
  <2>2. pc[w] = "notify" /\ pc'[w] = "lock"
    BY <1>5 DEF Notify, TypeOK
  <2> QED
    BY <2>1, <2>2, CountsMoved
<1>6. ASSUME NotifyFails(w) PROVE f = e /\ o = n
  <2>1. OneMoves(pc, pc', w)
    BY <1>6, WorkerMoves
  <2>2. pc[w] = "notify" /\ pc'[w] = "failing"
    BY <1>6 DEF NotifyFails, TypeOK
  <2> QED
    BY <2>1, <2>2, CountsMoved
<1>7. ASSUME StopAfterFailure(w) PROVE f = e /\ o = n - 1
  <2>1. OneMoves(WakeAll(pc), pc', w)
    BY <1>7, WorkerMoves
  <2>2. WakeAll(pc)[w] = "failing" /\ pc'[w] = "exited"
    BY <1>7, WakeAllType DEF StopAfterFailure, WakeAll, TypeOK
  <2>3. Executing(WakeAll(pc)) = e /\ Owing(WakeAll(pc)) = n
    BY CountsWoken DEF TypeOK
  <2> QED
    BY <2>1, <2>2, <2>3, CountsMoved
<1> QED
  BY <1>1, <1>2, <1>3, <1>4, <1>5, <1>6, <1>7

-----------------------------------------------------------------------------
LEMMA Inductive ==
    ASSUME IInv, [Next]_vars
    PROVE  IInv'
<1> DEFINE e == Executing(pc)
           n == Owing(pc)
           f == Executing(pc')
           o == Owing(pc')
<1>0. TypeOK /\ TypeOK'
  BY Typing DEF IInv
<1>a. e \in Nat /\ n \in Nat /\ f \in Nat /\ o \in Nat
  BY CountsAreNat
<1>b. /\ outstanding \in Nat /\ tokens \in Nat
      /\ Len(pending) \in Nat /\ Len(completed) \in Nat
      /\ outstanding' \in Nat /\ tokens' \in Nat
      /\ Len(pending') \in Nat /\ Len(completed') \in Nat
  BY <1>0, LenProperties DEF TypeOK
<1>c. /\ outstanding = Len(pending) + Len(completed) + e
      /\ tokens + Taking + n <= Len(completed)
      /\ ~stopping => Len(completed) = tokens + Taking + n
      /\ caller = "joining" => pending = <<>>
      /\ caller = "cleanup" => stopping
  BY AtIsWhere DEF IInv, Conservation, TokenAccount, Drained
<1>d. /\ Cardinality(At({"executing"}))' = f
      /\ Cardinality(At({"notify", "failing"}))' = o
  BY DEF At, Where, Executing, Owing
<1> SUFFICES
      /\ outstanding' = Len(pending') + Len(completed') + f
      /\ tokens' + Taking' + o <= Len(completed')
      /\ ~stopping' => Len(completed') = tokens' + Taking' + o
      /\ caller' = "joining" => pending' = <<>>
      /\ caller' = "cleanup" => stopping'
  BY <1>0, <1>d DEF IInv, Conservation, TokenAccount, Drained
<1> HIDE DEF e, n, f, o
<1> USE <1>a, <1>b, <1>c
<1>1. ASSUME CallerStep PROVE f = e /\ o = n
  BY <1>0, <1>1, CallerCounts DEF e, n, f, o
<1>2. CASE \E w \in Workers : StartThread(w)
  <2>1. PICK w \in Workers : StartThread(w)
    BY <1>2
  <2>2. caller = "creating" /\ caller' \in {"creating", "ready"}
    BY <2>1 DEF StartThread
  <2>3. UNCHANGED <<pending, completed, outstanding, stopping, tokens>>
    BY <2>1 DEF StartThread
  <2> QED
    BY <1>1, <1>2, <2>2, <2>3 DEF CallerStep, Taking
<1>3. CASE StartFails
  BY <1>1, <1>3 DEF CallerStep, StartFails, Taking
<1>4. CASE CleanupJoined
  BY <1>1, <1>4 DEF CallerStep, CleanupJoined, Taking
<1>5. CASE Submit
  <2>1. Len(pending') = Len(pending) + 1
    BY <1>0, <1>5 DEF Submit, TypeOK
  <2> QED
    BY <1>1, <1>5, <2>1 DEF CallerStep, Submit, Taking
<1>6. CASE ConsumeToken
  BY <1>1, <1>6 DEF CallerStep, ConsumeToken, Taking
<1>7. CASE PopCompletion
  <2>1. completed # <<>>
    BY <1>7, EmptySeq DEF PopCompletion, Taking
  <2>2. Len(completed') = Len(completed) - 1
    BY <1>0, <1>7, <2>1, HeadTailProperties DEF PopCompletion, TypeOK
  <2>3. outstanding' = outstanding - 1
    BY <1>7, <2>1, <2>2, DecrementExact DEF PopCompletion
  <2> QED
    BY <1>1, <1>7, <2>2, <2>3 DEF CallerStep, PopCompletion, Taking
<1>8. CASE DestroyStop
  <2>1. outstanding' = outstanding - Len(pending) /\ Len(pending') = 0
    BY <1>8, DecrementExact DEF DestroyStop
  <2> QED
    BY <1>1, <1>8, <2>1 DEF CallerStep, DestroyStop, Taking
<1>9. CASE DestroyJoined
  <2>1. e = 0 /\ n = 0
    <3>1. Where(pc, {"executing"}) = {} /\ Where(pc, {"notify", "failing"}) = {}
      BY <1>9 DEF DestroyJoined, Where
    <3> QED
      BY <3>1, FS_EmptySet DEF Executing, Owing, e, n
  <2>2. Len(completed') = 0 /\ Len(pending') = 0
    BY <1>9 DEF DestroyJoined
  <2> QED
    BY <1>1, <1>9, <2>1, <2>2 DEF CallerStep, DestroyJoined, Taking
<1>10. ASSUME NEW w \in Workers, WorkerStep(w) \/ SpuriousWakeup(w)
       PROVE  /\ outstanding' = Len(pending') + Len(completed') + f
              /\ tokens' + Taking' + o <= Len(completed')
              /\ ~stopping' => Len(completed') = tokens' + Taking' + o
              /\ caller' = "joining" => pending' = <<>>
              /\ caller' = "cleanup" => stopping'
  <2>0. /\ Wait(w) \/ Exit(w) \/ SpuriousWakeup(w) => f = e /\ o = n
        /\ PopPending(w) => f = e + 1 /\ o = n
        /\ Discard(w) => f = e - 1 /\ o = n
        /\ PushCompletion(w) => f = e - 1 /\ o = n + 1
        /\ Notify(w) => f = e /\ o = n - 1
        /\ NotifyFails(w) => f = e /\ o = n
        /\ StopAfterFailure(w) => f = e /\ o = n - 1
    BY <1>0, WorkerCounts DEF e, n, f, o
  <2>1. CASE Wait(w) \/ Exit(w) \/ SpuriousWakeup(w)
    BY <2>0, <2>1 DEF Wait, Exit, SpuriousWakeup, Taking
  <2>2. CASE PopPending(w)
    <3>1. Len(pending') = Len(pending) - 1
      BY <1>0, <2>2, HeadTailProperties DEF PopPending, TypeOK
    <3> QED
      BY <2>0, <2>2, <3>1 DEF PopPending, Taking
  <2>3. CASE Discard(w)
    <3>1. outstanding' = outstanding - 1
      BY <2>0, <2>3, DecrementExact DEF Discard
    <3> QED
      BY <2>0, <2>3, <3>1 DEF Discard, Taking
  <2>4. CASE PushCompletion(w)
    <3>1. Len(completed') = Len(completed) + 1
      BY <1>0, <2>4 DEF PushCompletion, TypeOK
    <3> QED
      BY <2>0, <2>4, <3>1 DEF PushCompletion, Taking
  <2>5. CASE Notify(w)
    BY <2>0, <2>5 DEF Notify, Taking
  <2>6. CASE NotifyFails(w)
    BY <2>0, <2>6 DEF NotifyFails, Taking
  <2>7. CASE StopAfterFailure(w)
    BY <2>0, <2>7 DEF StopAfterFailure, Taking
  <2> QED
    BY <1>10, <2>1, <2>2, <2>3, <2>4, <2>5, <2>6, <2>7 DEF WorkerStep
<1>11. CASE UNCHANGED vars
  <2>1. f = e /\ o = n
    BY <1>11 DEF vars, e, n, f, o
  <2> QED
    BY <1>11, <2>1 DEF vars, Taking
<1> QED
  BY <1>2, <1>3, <1>4, <1>5, <1>6, <1>7, <1>8, <1>9, <1>10, <1>11
  DEF Next, CallerStep, Gone

LEMMA InitIInv == Init => IInv
<1> SUFFICES ASSUME Init PROVE IInv
  OBVIOUS
<1>1. TypeOK
  BY InitType
<1>2. At({"executing"}) = {} /\ At({"notify", "failing"}) = {}
  BY DEF Init, At
<1>3. Cardinality(At({"executing"})) = 0 /\ Cardinality(At({"notify", "failing"})) = 0
  BY <1>2, FS_EmptySet
<1> QED
  BY <1>1, <1>3 DEF Init, IInv, Conservation, TokenAccount, Drained, Taking

LEMMA Invariance == Spec => []IInv
  BY InitIInv, Inductive, PTL DEF Spec

(* The counter that submit_job tests against the capacity counts exactly   *)
(* the queued, running and untaken jobs, in every reachable state of a     *)
(* pool of any size, shutdown included.                                    *)
THEOREM CountIsExact == Spec => []Conservation
<1>1. IInv => Conservation
  BY DEF IInv
<1> QED
  BY <1>1, Invariance, PTL

(* A token read from the eventfd is always backed by a queued completion,  *)
(* so authd_worker_pool_take_completion never comes back empty-handed.     *)
THEOREM TokensAreBacked == Spec => []TokensBacked
<1>1. IInv => TokensBacked
  <2> SUFFICES ASSUME IInv PROVE TokensBacked
    OBVIOUS
  <2>1. tokens \in Nat /\ Len(completed) \in Nat /\ Owing(pc) \in Nat
    BY CountsAreNat, LenProperties DEF IInv, TypeOK
  <2>2. tokens + Taking + Owing(pc) <= Len(completed)
    BY AtIsWhere DEF IInv, TokenAccount
  <2> QED
    BY <2>1, <2>2 DEF TokensBacked, Taking
<1> QED
  BY <1>1, Invariance, PTL

(* While the pool runs, each completion worker_main pushed has been        *)
(* announced on the eventfd or is about to be.                             *)
THEOREM NothingStranded == Spec => []NoStrandedCompletion
<1>1. IInv => NoStrandedCompletion
  BY DEF IInv, TokenAccount, NoStrandedCompletion, Taking
<1> QED
  BY <1>1, Invariance, PTL

-----------------------------------------------------------------------------
(***************************************************************************)
(* The pool implements JobLedger.  A job is working while it is pending or *)
(* in the hands of a worker and ready while it is in the queue of          *)
(* completions.  What the invariant above lacks is that a job is in one    *)
(* place only: then finishing or taking it moves it from one set of the    *)
(* ledger to the other.                                                    *)
(***************************************************************************)

NoTwice(queue) == \A i, k \in 1 .. Len(queue) : queue[i] = queue[k] => i = k

(* The jobs in the hands of workers. *)
Busy(f) == {f[w] : w \in {v \in Workers : f[v] # 0}}

Once(pend, comp, f, next) ==
    /\ NoTwice(pend) /\ NoTwice(comp)
    /\ \A v, w \in Workers : f[v] = f[w] /\ f[v] # 0 => v = w
    /\ Elements(pend) \cap Elements(comp) = {}
    /\ Elements(pend) \cap Busy(f) = {} /\ Elements(comp) \cap Busy(f) = {}
    /\ \A i \in Elements(pend) \cup Elements(comp) \cup Busy(f) : i \in JobIds /\ i < next

LedgerInv ==
    /\ IInv /\ Once(pending, completed, job, next_job_id)
    /\ caller = "joining" => stopping

LEMMA QueueAppend ==
    ASSUME NEW q \in Seq(JobIds), NEW x \in JobIds
    PROVE  /\ Elements(Append(q, x)) = Elements(q) \cup {x}
           /\ NoTwice(q) /\ x \notin Elements(q) => NoTwice(Append(q, x))
<1>1. /\ Len(Append(q, x)) = Len(q) + 1 /\ Len(q) \in Nat
      /\ \A i \in 1 .. Len(q) : Append(q, x)[i] = q[i]
      /\ Append(q, x)[Len(q) + 1] = x
  BY AppendProperties, LenProperties
<1> DEFINE r == Append(q, x)
           n == Len(q)
<1> HIDE DEF r, n
<1>2. /\ Len(r) = n + 1 /\ n \in Nat /\ r[n + 1] = x /\ n = Len(q)
      /\ \A i \in 1 .. n : r[i] = q[i]
  BY <1>1 DEF r, n
<1>3. \A i \in 1 .. n + 1 : i \in 1 .. n \/ i = n + 1
  BY <1>2
<1>4. Elements(r) = Elements(q) \cup {x}
  BY <1>2, <1>3 DEF Elements
<1>5. ASSUME NoTwice(q), x \notin Elements(q), NEW i \in 1 .. n + 1, NEW k \in 1 .. n + 1,
             r[i] = r[k]
      PROVE  i = k
  BY <1>2, <1>3, <1>5 DEF NoTwice, Elements
<1>6. QED
  BY <1>2, <1>4, <1>5 DEF r, NoTwice

LEMMA QueueTail ==
    ASSUME NEW q \in Seq(JobIds), q # <<>>
    PROVE  /\ Head(q) \in JobIds /\ Tail(q) \in Seq(JobIds)
           /\ Elements(q) = Elements(Tail(q)) \cup {Head(q)}
           /\ NoTwice(q) => NoTwice(Tail(q)) /\ Head(q) \notin Elements(Tail(q))
<1> DEFINE t == Tail(q)
           h == Head(q)
           n == Len(t)
<1>1. /\ h \in JobIds /\ t \in Seq(JobIds) /\ n \in Nat /\ Len(q) = n + 1 /\ h = q[1]
      /\ \A i \in 1 .. n : t[i] = q[i + 1]
  BY HeadTailProperties, LenProperties
<1> HIDE DEF t, h, n
<1>2. \A i \in 1 .. n + 1 : i = 1 \/ (i - 1 \in 1 .. n /\ i = (i - 1) + 1)
  BY <1>1
<1>3. \A i \in 1 .. n : i + 1 \in 1 .. n + 1 /\ i + 1 # 1
  BY <1>1
<1>4. Elements(q) = Elements(t) \cup {h}
  <2>1. ASSUME NEW i \in 1 .. n + 1 PROVE q[i] \in Elements(t) \cup {h}
    <3>1. CASE i = 1
      BY <1>1, <3>1
    <3>2. CASE i - 1 \in 1 .. n /\ i = (i - 1) + 1
      <4>1. t[i - 1] = q[i]
        BY <1>1, <3>2
      <4>2. QED
        BY <3>2, <4>1 DEF Elements, n
    <3>3. QED
      BY <1>2, <3>1, <3>2
  <2>2. ASSUME NEW i \in 1 .. n PROVE t[i] \in Elements(q)
    BY <1>1, <1>3 DEF Elements
  <2>3. h \in Elements(q)
    <3>1. 1 \in 1 .. n + 1
      BY <1>1
    <3>2. QED
      BY <1>1, <3>1 DEF Elements
  <2>4. QED
    BY <1>1, <2>1, <2>2, <2>3 DEF Elements, n
<1>5. ASSUME NoTwice(q) PROVE NoTwice(t) /\ h \notin Elements(t)
  <2>1. ASSUME NEW i \in 1 .. n, NEW k \in 1 .. n, t[i] = t[k] PROVE i = k
    <3>1. i + 1 = k + 1
      BY <1>1, <1>3, <1>5, <2>1 DEF NoTwice
    <3>2. QED
      BY <3>1
  <2>2. ASSUME NEW i \in 1 .. n, t[i] = h PROVE FALSE
    <3>1. 1 \in 1 .. n + 1
      BY <1>1
    <3>2. QED
      BY <1>1, <1>3, <1>5, <2>2, <3>1 DEF NoTwice
  <2>3. QED
    BY <2>1, <2>2 DEF NoTwice, Elements, n
<1>6. QED
  BY <1>1, <1>4, <1>5 DEF t, h

LEMMA QueueEmpty == Elements(<<>>) = {} /\ NoTwice(<<>>)
BY DEF Elements, NoTwice

(* Worker w takes or drops a job. *)
LEMMA BusyTaken ==
    ASSUME NEW f \in [Workers -> JobIds \cup {0}], NEW w \in Workers, NEW x \in JobIds,
           f[w] = 0
    PROVE  Busy([f EXCEPT ![w] = x]) = Busy(f) \cup {x}
<1> DEFINE g == [f EXCEPT ![w] = x]
<1>1. g[w] = x /\ x # 0 /\ \A v \in Workers : v # w => g[v] = f[v]
  BY PoolAssumption DEF JobIds
<1> HIDE DEF g
<1>2. Busy(g) = Busy(f) \cup {x}
  BY <1>1 DEF Busy
<1>3. QED
  BY <1>2 DEF g

LEMMA BusyDropped ==
    ASSUME NEW f \in [Workers -> JobIds \cup {0}], NEW w \in Workers, f[w] # 0,
           \A u, v \in Workers : f[u] = f[v] /\ f[u] # 0 => u = v
    PROVE  Busy([f EXCEPT ![w] = 0]) = Busy(f) \ {f[w]} /\ f[w] \in Busy(f)
<1> DEFINE g == [f EXCEPT ![w] = 0]
<1>1. g[w] = 0 /\ \A v \in Workers : v # w => g[v] = f[v]
  OBVIOUS
<1> HIDE DEF g
<1>2. Busy(g) = Busy(f) \ {f[w]} /\ f[w] \in Busy(f)
  BY <1>1 DEF Busy
<1>3. QED
  BY <1>2 DEF g

(* How many jobs the ledger holds at most. *)
LEMMA HeldBound ==
    ASSUME TypeOK
    PROVE  LET H == (Elements(pending) \cup Busy(job)) \cup Elements(completed)
           IN  /\ IsFiniteSet(H)
               /\ Cardinality(H) <= Len(pending) + Len(completed)
                                      + Cardinality(At({"executing"}))
<1>1. ASSUME NEW q \in Seq(JobIds)
      PROVE  IsFiniteSet(Elements(q)) /\ Cardinality(Elements(q)) <= Len(q)
             /\ Len(q) \in Nat
  <2> DEFINE f == [i \in 1 .. Len(q) |-> q[i]]
  <2>1. Len(q) \in Nat
    BY LenProperties
  <2>2. f \in Surjection(1 .. Len(q), Elements(q))
    BY DEF Surjection, Elements
  <2>3. IsFiniteSet(1 .. Len(q)) /\ Cardinality(1 .. Len(q)) = Len(q)
    BY <2>1, FS_Interval, SMTT(60)
  <2>4. QED
    BY <2>1, <2>2, <2>3, FS_Surjection
<1>2. IsFiniteSet(Busy(job)) /\ Cardinality(Busy(job)) <= Cardinality(At({"executing"}))
      /\ Cardinality(At({"executing"})) \in Nat
  <2> DEFINE E == At({"executing"})
             f == [w \in E |-> job[w]]
  <2>1. E = {v \in Workers : job[v] # 0}
    BY DEF TypeOK, At
  <2>2. f \in Surjection(E, Busy(job))
    BY <2>1 DEF Surjection, Busy
  <2>3. E = Where(pc, {"executing"})
    BY DEF At, Where
  <2>4. IsFiniteSet(E) /\ Cardinality(E) \in Nat
    BY <2>3, WhereFinite
  <2>5. QED
    BY <2>2, <2>4, FS_Surjection
<1> DEFINE P == Elements(pending)
           C == Elements(completed)
           B == Busy(job)
<1>3. pending \in Seq(JobIds) /\ completed \in Seq(JobIds)
  BY DEF TypeOK
<1>4. /\ IsFiniteSet(P) /\ Cardinality(P) <= Len(pending) /\ Len(pending) \in Nat
      /\ IsFiniteSet(C) /\ Cardinality(C) <= Len(completed) /\ Len(completed) \in Nat
  BY <1>1, <1>3
<1> HIDE DEF P, C, B
<1>5. ASSUME NEW S, NEW T, IsFiniteSet(S), IsFiniteSet(T)
      PROVE  /\ IsFiniteSet(S \cup T)
             /\ Cardinality(S \cup T) <= Cardinality(S) + Cardinality(T)
             /\ Cardinality(S) \in Nat /\ Cardinality(T) \in Nat /\ Cardinality(S \cup T) \in Nat
  <2>1. /\ IsFiniteSet(S \cup T)
        /\ Cardinality(S \cup T) = Cardinality(S) + Cardinality(T) - Cardinality(S \cap T)
    BY <1>5, FS_Union
  <2>2. IsFiniteSet(S \cap T)
    BY <1>5, FS_Subset
  <2>3. Cardinality(S) \in Nat /\ Cardinality(T) \in Nat /\ Cardinality(S \cap T) \in Nat
        /\ Cardinality(S \cup T) \in Nat
    BY <1>5, <2>1, <2>2, FS_CardinalityType
  <2>4. QED
    BY <2>1, <2>3
<1>6. /\ IsFiniteSet(P \cup B) /\ Cardinality(P \cup B) <= Cardinality(P) + Cardinality(B)
      /\ Cardinality(P) \in Nat /\ Cardinality(B) \in Nat /\ Cardinality(P \cup B) \in Nat
  BY <1>2, <1>4, <1>5 DEF B
<1>7. /\ IsFiniteSet((P \cup B) \cup C)
      /\ Cardinality((P \cup B) \cup C) <= Cardinality(P \cup B) + Cardinality(C)
      /\ Cardinality(C) \in Nat /\ Cardinality((P \cup B) \cup C) \in Nat
  BY <1>4, <1>5, <1>6
<1>8. Cardinality((P \cup B) \cup C) <= Len(pending) + Len(completed)
                                          + Cardinality(At({"executing"}))
  BY <1>2, <1>4, <1>6, <1>7 DEF B
<1>9. QED
  BY <1>7, <1>8 DEF P, B, C

(* The sets of the ledger. *)
Working == Elements(pending) \cup {job[w] : w \in At({"executing"})}
Ready == Elements(completed)
Fresh == next_job_id .. MaxJobs

LEMMA WorkingIs ==
    ASSUME TypeOK
    PROVE  Working = Elements(pending) \cup Busy(job)
<1>1. At({"executing"}) = {v \in Workers : job[v] # 0}
  BY DEF TypeOK, At
<1>2. QED
  BY <1>1 DEF Working, Busy

LEMMA WorkingIsNext ==
    ASSUME TypeOK'
    PROVE  Working' = Elements(pending') \cup Busy(job')
<1>1. At({"executing"})' = {v \in Workers : job'[v] # 0}
  BY DEF TypeOK, At
<1>2. QED
  BY <1>1 DEF Working, Busy

(* What one step does to the ledger. *)
Booked == [Ledger!Next]_(Ledger!vars)

LEMMA LedgerSame ==
    ASSUME Working' = Working, completed' = completed, next_job_id' = next_job_id,
           stopping' = stopping
    PROVE  Booked
BY DEF Booked, Ledger!vars, Working, Fresh, Ready

LEMMA LedgerDrop ==
    ASSUME stopping' = TRUE, Working' \subseteq Working, Ready' \subseteq Ready,
           next_job_id' = next_job_id
    PROVE  Booked
BY DEF Booked, Ledger!Next, Ledger!Drop, Working, Ready

LEMMA LedgerAccept ==
    ASSUME NEW j \in JobIds, ~stopping, j \in Fresh, Cardinality(Working \cup Ready) < Capacity,
           Fresh' = Fresh \ {j}, Working' = Working \cup {j}, Ready' = Ready,
           stopping' = stopping
    PROVE  Booked
<1>1. Ledger!Cardinality(Ledger!Held) < Capacity
  <2>1. Ledger!Held = Working \cup Ready
    BY DEF Ledger!Held, Working, Ready
  <2>2. Ledger!Cardinality(Working \cup Ready) = Cardinality(Working \cup Ready)
    BY DEF Ledger!Cardinality, Cardinality
  <2>3. QED
    BY <2>1, <2>2
<1>2. Ledger!Accept(j)
  BY <1>1 DEF Ledger!Accept, Working, Ready, Fresh
<1>3. QED
  BY <1>2 DEF Booked, Ledger!Next

LEMMA LedgerFinish ==
    ASSUME NEW j \in JobIds, ~stopping, j \in Working, Working' = Working \ {j},
           Ready' = Ready \cup {j}, next_job_id' = next_job_id, stopping' = stopping
    PROVE  Booked
<1>1. Ledger!Finish(j)
  BY DEF Ledger!Finish, Working, Ready
<1>2. QED
  BY <1>1 DEF Booked, Ledger!Next

(* The queues stay, and no worker takes or drops a job. *)
LEMMA StillBooked ==
    ASSUME LedgerInv, TypeOK', UNCHANGED <<pending, completed, job, next_job_id>>,
           stopping' = stopping \/ stopping' = TRUE
    PROVE  Once(pending', completed', job', next_job_id') /\ Booked
<1>1. Once(pending', completed', job', next_job_id')
  BY DEF LedgerInv
<1>2. Working' = Elements(pending') \cup Busy(job') /\ Working = Elements(pending) \cup Busy(job)
  BY WorkingIs, WorkingIsNext DEF LedgerInv, IInv
<1>3. Working' = Working /\ Ready' = Ready
  BY <1>2 DEF Ready
<1>4. Booked
  BY <1>3, LedgerSame, LedgerDrop
<1>5. QED
  BY <1>1, <1>4

LEMMA SubmitBooked ==
    ASSUME LedgerInv, TypeOK', Submit
    PROVE  Once(pending', completed', job', next_job_id') /\ Booked
<1> DEFINE x == next_job_id
           P == Elements(pending)
           C == Elements(completed)
           B == Busy(job)
<1>1. /\ x \in JobIds /\ ~stopping /\ outstanding < Capacity
      /\ pending' = Append(pending, x) /\ next_job_id' = x + 1
      /\ UNCHANGED <<completed, stopping, job>>
  BY DEF Submit
<1>2. TypeOK /\ Conservation /\ Once(pending, completed, job, x)
  BY DEF LedgerInv, IInv
<1>3. pending \in Seq(JobIds) /\ x \in Nat
  BY <1>1, <1>2, PoolAssumption DEF TypeOK, JobIds
<1>4. x \notin P /\ x \notin C /\ x \notin B
  BY <1>2, <1>3 DEF Once, JobIds
<1>5. Elements(pending') = P \cup {x} /\ NoTwice(pending')
  BY <1>1, <1>2, <1>3, <1>4, QueueAppend DEF Once
<1>6. \A i \in JobIds : i < x => i < x + 1
  BY <1>3, PoolAssumption DEF JobIds
<1>7. x < x + 1
  BY <1>3
<1>8. Once(pending', completed', job', next_job_id')
  <2> DEFINE P2 == Elements(pending')
  <2>1. Elements(completed') = C /\ Busy(job') = B /\ job' = job /\ NoTwice(completed')
    BY <1>1, <1>2 DEF Once
  <2>2. P2 \cap C = {} /\ P2 \cap B = {}
    BY <1>2, <1>4, <1>5 DEF Once
  <2>3. \A i \in P2 \cup C \cup B : i \in JobIds /\ i < x + 1
    BY <1>1, <1>2, <1>5, <1>6, <1>7 DEF Once
  <2>4. QED
    BY <1>1, <1>2, <1>5, <2>1, <2>2, <2>3 DEF Once
<1>9. Working = P \cup B /\ Working' = Elements(pending') \cup Busy(job')
  BY <1>2, WorkingIs, WorkingIsNext
<1>10. Working' = Working \cup {x}
  BY <1>1, <1>5, <1>9
<1>11. Cardinality(Working \cup Ready) < Capacity
  <2>1. /\ IsFiniteSet((P \cup B) \cup C)
        /\ Cardinality((P \cup B) \cup C) <= Len(pending) + Len(completed)
                                              + Cardinality(At({"executing"}))
    BY <1>2, HeldBound
  <2>2. Cardinality((P \cup B) \cup C) \in Nat
    BY <2>1, FS_CardinalityType
  <2>3. Cardinality((P \cup B) \cup C) <= outstanding /\ outstanding \in Nat
    BY <1>2, <2>1 DEF Conservation, TypeOK
  <2> HIDE DEF P, B, C
  <2>4. Cardinality((P \cup B) \cup C) < Capacity
    BY <1>1, <2>2, <2>3, PoolAssumption
  <2>5. QED
    BY <1>9, <2>4 DEF Ready, C
<1>12. x \in Fresh /\ Fresh' = Fresh \ {x}
  BY <1>1, <1>3, PoolAssumption DEF Fresh, JobIds
<1>13. Ready' = Ready /\ stopping' = stopping
  BY <1>1 DEF Ready
<1>14. Booked
  BY <1>1, <1>10, <1>11, <1>12, <1>13, LedgerAccept
<1>15. QED
  BY <1>8, <1>14

LEMMA PopCompletionBooked ==
    ASSUME LedgerInv, TypeOK', PopCompletion
    PROVE  Once(pending', completed', job', next_job_id') /\ Booked
<1>1. TypeOK /\ Once(pending, completed, job, next_job_id)
  BY DEF LedgerInv, IInv
<1>2. CASE completed = <<>>
  BY <1>2, StillBooked DEF PopCompletion
<1>3. CASE completed # <<>>
  <2> DEFINE h == Head(completed)
             C == Elements(completed)
             C2 == Elements(Tail(completed))
  <2>1. completed' = Tail(completed) /\ UNCHANGED <<pending, next_job_id, stopping, job>>
    BY <1>3 DEF PopCompletion
  <2>2. /\ h \in JobIds /\ C = C2 \cup {h} /\ NoTwice(Tail(completed)) /\ h \notin C2
    BY <1>1, <1>3, QueueTail DEF TypeOK, Once
  <2> HIDE DEF h, C, C2
  <2>3. Elements(completed') = C2 /\ Elements(completed) = C
    BY <2>1 DEF C2, C
  <2>4. Once(pending', completed', job', next_job_id')
    BY <1>1, <2>1, <2>2, <2>3 DEF Once
  <2>5. Working = Elements(pending) \cup Busy(job) /\ Working' = Elements(pending') \cup Busy(job')
    BY <1>1, WorkingIs, WorkingIsNext
  <2>6. Working' = Working /\ h \in Ready /\ Ready' = Ready \ {h}
    BY <2>1, <2>2, <2>3, <2>5 DEF Ready
  <2>7. Ledger!Take(h)
    BY <2>1, <2>6 DEF Ledger!Take, Working, Ready
  <2>8. QED
    BY <2>2, <2>4, <2>7 DEF Booked, Ledger!Next
<1>4. QED
  BY <1>2, <1>3

LEMMA DestroyBooked ==
    ASSUME LedgerInv, TypeOK', DestroyStop \/ DestroyJoined
    PROVE  Once(pending', completed', job', next_job_id') /\ Booked
<1>1. TypeOK /\ Once(pending, completed, job, next_job_id)
  BY DEF LedgerInv, IInv
<1>2. /\ pending' \in {pending, <<>>} /\ completed' \in {completed, <<>>}
      /\ job' = job /\ next_job_id' = next_job_id
  BY DEF DestroyStop, DestroyJoined
<1>3. stopping' = TRUE
  BY <1>1 DEF DestroyStop, DestroyJoined, LedgerInv, TypeOK
<1>4. /\ Elements(pending') \subseteq Elements(pending) /\ NoTwice(pending')
      /\ Elements(completed') \subseteq Elements(completed) /\ NoTwice(completed')
      /\ Busy(job') = Busy(job)
  BY <1>1, <1>2, QueueEmpty DEF Once
<1>5. Once(pending', completed', job', next_job_id')
  BY <1>1, <1>2, <1>4 DEF Once
<1>6. Working = Elements(pending) \cup Busy(job) /\ Working' = Elements(pending') \cup Busy(job')
  BY <1>1, WorkingIs, WorkingIsNext
<1>7. Working' \subseteq Working /\ Ready' \subseteq Ready
  BY <1>4, <1>6 DEF Ready
<1>8. QED
  BY <1>2, <1>3, <1>5, <1>7, LedgerDrop

LEMMA WorkerBooked ==
    ASSUME LedgerInv, TypeOK', NEW w \in Workers,
           PopPending(w) \/ Discard(w) \/ PushCompletion(w)
    PROVE  Once(pending', completed', job', next_job_id') /\ Booked
<1> DEFINE P == Elements(pending)
           C == Elements(completed)
           B == Busy(job)
<1>1. TypeOK /\ Once(pending, completed, job, next_job_id)
  BY DEF LedgerInv, IInv
<1>2. job \in [Workers -> JobIds \cup {0}] /\ 0 \notin JobIds
      /\ \A v \in Workers : pc[v] = "executing" <=> job[v] # 0
  BY <1>1, PoolAssumption DEF TypeOK, JobIds
<1>3. Working = P \cup B /\ Working' = Elements(pending') \cup Busy(job')
  BY <1>1, WorkingIs, WorkingIsNext
<1>4. CASE PopPending(w)
  <2> DEFINE h == Head(pending)
             P2 == Elements(Tail(pending))
  <2>1. /\ job[w] = 0 /\ pending # <<>> /\ job' = [job EXCEPT ![w] = h]
        /\ pending' = Tail(pending) /\ UNCHANGED <<completed, next_job_id, stopping>>
    BY <1>2, <1>4 DEF PopPending
  <2>2. h \in JobIds /\ P = P2 \cup {h} /\ NoTwice(Tail(pending)) /\ h \notin P2
    BY <1>1, <2>1, QueueTail DEF TypeOK, Once
  <2>3. Busy(job') = B \cup {h}
    BY <1>2, <2>1, <2>2, BusyTaken, ZenonT(60)
  <2>4. \A v \in Workers : v # w => job'[v] = job[v]
    BY <1>2, <2>1
  <2>5. job'[w] = h /\ h \notin B
    BY <1>1, <1>2, <2>1, <2>2 DEF Once
  <2>6. \A v \in Workers : job[v] # h
    BY <1>2, <2>2, <2>5 DEF Busy
  <2> HIDE DEF h, P2
  <2>7. Elements(pending') = P2 /\ Elements(completed') = C /\ NoTwice(pending')
    BY <2>1, <2>2 DEF P2
  <2>8. \A u, v \in Workers : job'[u] = job'[v] /\ job'[u] # 0 => u = v
    BY <1>1, <2>4, <2>5, <2>6 DEF Once
  <2> HIDE DEF P, C, B
  <2>9. /\ P \cap C = {} /\ P \cap B = {} /\ C \cap B = {} /\ NoTwice(completed)
        /\ \A i \in P \cup C \cup B : i \in JobIds /\ i < next_job_id
    BY <1>1 DEF Once, P, C, B
  <2>10. /\ P2 \cap C = {} /\ P2 \cap (B \cup {h}) = {} /\ C \cap (B \cup {h}) = {}
         /\ \A i \in P2 \cup C \cup (B \cup {h}) : i \in JobIds /\ i < next_job_id
    BY <2>2, <2>9
  <2>11. Once(pending', completed', job', next_job_id')
    BY <2>1, <2>3, <2>7, <2>8, <2>9, <2>10 DEF Once
  <2>12. Working' = Working
    BY <1>3, <2>2, <2>3, <2>7
  <2>13. QED
    BY <2>1, <2>11, <2>12, LedgerSame
<1>5. CASE Discard(w) \/ PushCompletion(w)
  <2> DEFINE x == job[w]
  <2>1. /\ x # 0 /\ job' = [job EXCEPT ![w] = 0]
        /\ UNCHANGED <<pending, next_job_id, stopping>>
    BY <1>2, <1>5 DEF Discard, PushCompletion
  <2>2. x \in JobIds
    BY <1>2, <2>1
  <2>3. Busy(job') = B \ {x} /\ x \in B
    BY <1>1, <1>2, <2>1, BusyDropped DEF Once
  <2>4. \A v \in Workers : job'[v] = IF v = w THEN 0 ELSE job[v]
    BY <1>2, <2>1
  <2>5. \A u, v \in Workers : job'[u] = job'[v] /\ job'[u] # 0 => u = v
    BY <1>1, <2>4 DEF Once
  <2> HIDE DEF x
  <2> HIDE DEF P, C, B
  <2>6. /\ P \cap C = {} /\ P \cap B = {} /\ C \cap B = {} /\ NoTwice(completed)
        /\ NoTwice(pending) /\ \A i \in P \cup C \cup B : i \in JobIds /\ i < next_job_id
    BY <1>1 DEF Once, P, C, B
  <2>7. Elements(pending') = P /\ NoTwice(pending')
    BY <2>1, <2>6 DEF P
  <2>8. CASE Discard(w)
    <3>1. completed' = completed /\ stopping
      BY <2>8 DEF Discard
    <3>2. Elements(completed') = C /\ stopping' = TRUE /\ Ready' = Ready
      BY <1>1, <2>1, <3>1 DEF C, TypeOK, Ready
    <3>3. Once(pending', completed', job', next_job_id')
      BY <2>1, <2>3, <2>5, <2>6, <2>7, <3>1, <3>2 DEF Once
    <3>4. Working' \subseteq Working
      BY <1>3, <2>3, <2>7
    <3>5. QED
      BY <2>1, <3>2, <3>3, <3>4, LedgerDrop
  <2>9. CASE PushCompletion(w)
    <3>1. completed' = Append(completed, x) /\ ~stopping /\ completed \in Seq(JobIds)
      BY <1>1, <2>9 DEF PushCompletion, TypeOK, x
    <3>2. x \notin C /\ x \notin P
      BY <2>3, <2>6
    <3>3. Elements(completed') = C \cup {x} /\ NoTwice(completed')
      BY <2>2, <2>6, <3>1, <3>2, QueueAppend DEF C
    <3>4. /\ P \cap (C \cup {x}) = {} /\ P \cap (B \ {x}) = {} /\ (C \cup {x}) \cap (B \ {x}) = {}
          /\ \A i \in P \cup (C \cup {x}) \cup (B \ {x}) : i \in JobIds /\ i < next_job_id
      BY <2>3, <2>6, <3>2
    <3>5. Once(pending', completed', job', next_job_id')
      BY <2>1, <2>3, <2>5, <2>7, <3>3, <3>4 DEF Once
    <3>6. Working' = Working \ {x} /\ x \in Working
      BY <1>3, <2>3, <2>7, <3>2
    <3>7. Ready' = Ready \cup {x}
      BY <3>3 DEF Ready, C
    <3>8. Booked
      BY <2>1, <2>2, <3>1, <3>6, <3>7, LedgerFinish
    <3>9. QED
      BY <3>5, <3>8
  <2>10. QED
    BY <1>5, <2>8, <2>9
<1>6. QED
  BY <1>4, <1>5

LEMMA EveryStepBooked ==
    ASSUME LedgerInv, [Next]_vars
    PROVE  LedgerInv' /\ Booked
<1>1. IInv' /\ TypeOK'
  BY Inductive DEF LedgerInv, IInv
<1>2. stopping \in BOOLEAN
  BY DEF LedgerInv, IInv, TypeOK
<1>3. caller' = "joining" => stopping'
  <2>1. caller' = "joining" => caller = "joining" \/ DestroyStop
    BY DEF Next, CallerStep, StartThread, StartFails, CleanupJoined, Submit, ConsumeToken,
       PopCompletion, DestroyJoined, WorkerStep, Wait, PopPending, Exit, Discard, PushCompletion,
       Notify, NotifyFails, StopAfterFailure, SpuriousWakeup, Gone, vars
  <2>2. stopping => stopping'
    BY DEF Next, CallerStep, StartThread, StartFails, CleanupJoined, Submit, ConsumeToken,
       PopCompletion, DestroyStop, DestroyJoined, WorkerStep, Wait, PopPending, Exit, Discard,
       PushCompletion, Notify, NotifyFails, StopAfterFailure, SpuriousWakeup, Gone, vars
  <2>3. QED
    BY <2>1, <2>2 DEF DestroyStop, LedgerInv
<1>4. Once(pending', completed', job', next_job_id') /\ Booked
  <2>1. CASE \/ \E w \in Workers : \/ StartThread(w) \/ Wait(w) \/ Exit(w) \/ Notify(w)
                                   \/ NotifyFails(w) \/ StopAfterFailure(w) \/ SpuriousWakeup(w)
             \/ StartFails \/ CleanupJoined \/ ConsumeToken \/ UNCHANGED vars
    <3>1. UNCHANGED <<pending, completed, job, next_job_id>>
          /\ (stopping' = stopping \/ stopping' = TRUE)
      BY <2>1, Zenon DEF StartThread, Wait, Exit, Notify, NotifyFails, StopAfterFailure,
         SpuriousWakeup, StartFails, CleanupJoined, ConsumeToken, vars
    <3>2. QED
      BY <1>1, <3>1, StillBooked
  <2>2. CASE Submit
    BY <1>1, <2>2, SubmitBooked
  <2>3. CASE PopCompletion
    BY <1>1, <2>3, PopCompletionBooked
  <2>4. CASE DestroyStop \/ DestroyJoined
    BY <1>1, <2>4, DestroyBooked
  <2>5. CASE \E w \in Workers : PopPending(w) \/ Discard(w) \/ PushCompletion(w)
    BY <1>1, <2>5, WorkerBooked
  <2>6. QED
    BY <2>1, <2>2, <2>3, <2>4, <2>5 DEF Next, CallerStep, WorkerStep, Gone
<1>5. QED
  BY <1>1, <1>3, <1>4 DEF LedgerInv

LEMMA LedgerInit == Init => LedgerInv /\ Ledger!Init
<1> SUFFICES ASSUME Init PROVE LedgerInv /\ Ledger!Init
  OBVIOUS
<1>1. IInv /\ TypeOK
  BY InitIInv DEF IInv
<1>2. /\ pending = <<>> /\ completed = <<>> /\ next_job_id = 1 /\ stopping = FALSE
      /\ caller = "creating" /\ \A w \in Workers : job[w] = 0
  BY DEF Init
<1>3. Busy(job) = {}
  BY <1>2 DEF Busy
<1>4. Once(pending, completed, job, next_job_id)
  BY <1>2, <1>3, QueueEmpty DEF Once
<1>5. Working = {} /\ Ready = {}
  BY <1>1, <1>2, <1>3, WorkingIs, QueueEmpty DEF Ready
<1>6. Ledger!Init
  BY <1>2, <1>5 DEF Ledger!Init, Working, Ready, JobIds
<1>7. QED
  BY <1>1, <1>2, <1>4, <1>6 DEF LedgerInv

(* The two queues, the workers and the eventfd of authd_worker_pool.c, for *)
(* any number of threads and any capacity, implement the ledger the event  *)
(* loop relies on: a job that was accepted is finished once, taken at most *)
(* once, dropped only while the pool stops, and never more than Capacity   *)
(* jobs are held.                                                          *)
THEOREM PoolImplementsLedger == Spec => LedgerSpec
<1>1. LedgerInv /\ [Next]_vars => LedgerInv' /\ Booked
  BY EveryStepBooked
<1>2. Spec => []LedgerInv
  BY <1>1, LedgerInit, PTL DEF Spec
<1>3. QED
  BY <1>1, <1>2, LedgerInit, PTL DEF Spec, LedgerSpec, Ledger!Spec, Booked

-----------------------------------------------------------------------------
(* THE REGISTRATION LIMITER *)

(* The inductive invariant. *)

(* s are times in their order, none of them to come. *)
Ordered(s, time) ==
    /\ \A i, j \in 1 .. Len(s) : i <= j => s[i] <= s[j]
    /\ \A i \in 1 .. Len(s) : s[i] <= time
    /\ Len(s) <= 2 * Attempts

(* The last k of s are a run that started at time t. *)
Run(s, k, t) ==
    /\ k <= Len(s) /\ s[Len(s) - k + 1] = t
    /\ \A i \in 1 .. Len(s) : i <= Len(s) + 1 - k - Attempts => s[i] + Window <= t

(* A new run may start. *)
Over(s, time) ==
    \A i \in 1 .. Len(s) : i <= Len(s) + 1 - Attempts => s[i] + Window <= time

Spans(s) == Len(s) = 2 * Attempts => s[2 * Attempts] - s[1] >= Window

(* Entry e counts the attempts of a. *)
Counts(e, a) == e # Free /\ e.address = a

Unique(table) ==
    \A i, j \in Slots : \A a \in Addresses :
        Counts(table[i], a) /\ Counts(table[j], a) => i = j

Past(table, time) == \A i \in Slots : table[i] # Free => table[i].started <= time

Measured(table, s, a, time) ==
    /\ Ordered(s, time) /\ Spans(s)
    /\ \A i \in Slots : Counts(table[i], a) => Run(s, table[i].attempts, table[i].started)
    /\ (\A i \in Slots : ~Counts(table[i], a)) => Over(s, time)

LimitInv ==
    /\ LimiterTypeOK /\ Unique(entries) /\ Past(entries, now)
    /\ \A a \in Addresses : Measured(entries, allowed[a], a, now)

-----------------------------------------------------------------------------
(* Runs of attempts. *)

(* What Remember makes of the times: it drops the first c of them. *)
Shifted(r, s, c) ==
    /\ c \in Nat /\ c <= 1 /\ Len(r) = Len(s) + 1 - c
    /\ c = 0 => Len(s) < 2 * Attempts
    /\ c = 1 => Len(s) = 2 * Attempts
    /\ \A i \in 1 .. Len(r) : i # Len(r) => i + c \in 1 .. Len(s) /\ r[i] = s[i + c]
    /\ r[Len(r)] = now

LEMMA RememberFacts ==
    ASSUME LimitAssumption, NEW s \in Seq(0 .. MaxTime), now \in 0 .. MaxTime,
           Len(s) <= 2 * Attempts
    PROVE  Remember(s) \in Seq(0 .. MaxTime) /\ \E c \in {0, 1} : Shifted(Remember(s), s, c)
<1> DEFINE t == Append(s, now)
<1>1. /\ t \in Seq(0 .. MaxTime) /\ Len(t) = Len(s) + 1 /\ t[Len(s) + 1] = now
      /\ \A i \in 1 .. Len(s) : t[i] = s[i]
  OBVIOUS
<1>2. Attempts \in Nat \ {0} /\ Len(s) \in Nat
  BY DEF LimitAssumption
<1> HIDE DEF t
<1>3. CASE Len(s) < 2 * Attempts
  <2>1. Remember(s) = t
    BY <1>1, <1>2, <1>3 DEF Remember, t
  <2>2. Shifted(t, s, 0)
    BY <1>1, <1>2, <1>3 DEF Shifted
  <2>3. QED
    BY <1>1, <2>1, <2>2
<1>4. CASE Len(s) = 2 * Attempts
  <2>1. Remember(s) = Tail(t)
    BY <1>1, <1>2, <1>4 DEF Remember, t
  <2>2. t # <<>>
    BY <1>1, <1>2
  <2>3. /\ Tail(t) \in Seq(0 .. MaxTime) /\ Len(Tail(t)) = Len(s)
        /\ \A i \in 1 .. Len(s) : Tail(t)[i] = t[i + 1]
    BY <1>1, <1>2, <2>2
  <2>4. Shifted(Tail(t), s, 1)
    <3> DEFINE u == Tail(t)
    <3>1. Len(u) = Len(s) /\ \A i \in 1 .. Len(s) : u[i] = t[i + 1]
      BY <2>3
    <3> HIDE DEF u
    <3>2. ASSUME NEW i \in 1 .. Len(u), i # Len(u)
          PROVE  i + 1 \in 1 .. Len(s) /\ u[i] = s[i + 1]
      <4>1. i \in 1 .. Len(s) /\ i + 1 \in 1 .. Len(s)
        BY <1>2, <3>1, <3>2
      <4>2. QED
        BY <1>1, <3>1, <4>1
    <3>3. u[Len(u)] = now
      BY <1>1, <1>2, <1>4, <3>1
    <3>4. Shifted(u, s, 1)
      BY <1>2, <1>4, <3>1, <3>2, <3>3 DEF Shifted
    <3>5. QED
      BY <3>4 DEF u
  <2>5. QED
    BY <2>1, <2>3, <2>4
<1>5. QED
  BY <1>2, <1>3, <1>4

(* The times stay in their order. *)
LEMMA RememberOrdered ==
    ASSUME LimitAssumption, NEW s \in Seq(0 .. MaxTime), now \in 0 .. MaxTime,
           NEW r \in Seq(0 .. MaxTime), NEW c, Shifted(r, s, c), Ordered(s, now)
    PROVE  Ordered(r, now)
<1>1. /\ Attempts \in Nat \ {0} /\ Len(s) \in Nat /\ Len(s) <= 2 * Attempts
      /\ c \in Nat /\ c <= 1 /\ Len(r) = Len(s) + 1 - c /\ Len(r) \in Nat
      /\ Len(r) <= 2 * Attempts
  BY DEF LimitAssumption, Ordered, Shifted
<1>2. /\ \A i \in 1 .. Len(s) : s[i] <= now
      /\ \A i, j \in 1 .. Len(s) : i <= j => s[i] <= s[j]
  BY DEF Ordered
<1>3. /\ \A i \in 1 .. Len(r) : i # Len(r) => i + c \in 1 .. Len(s) /\ r[i] = s[i + c]
      /\ r[Len(r)] = now
  BY DEF Shifted
<1>4. \A i \in 1 .. Len(r) : r[i] <= now
  BY <1>2, <1>3, SMTT(60)
<1>5. ASSUME NEW i \in 1 .. Len(r), NEW j \in 1 .. Len(r), i <= j
      PROVE  r[i] <= r[j]
  <2>1. CASE j = Len(r)
    BY <1>3, <1>4, <2>1
  <2>2. CASE j # Len(r)
    <3>1. i # Len(r) /\ i + c <= j + c
      BY <1>1, <1>5, <2>2
    <3>2. QED
      BY <1>2, <1>3, <2>2, <3>1
  <2>3. QED
    BY <2>1, <2>2
<1>6. QED
  BY <1>1, <1>4, <1>5 DEF Ordered

(* When the entry of a run has expired a new run may start. *)
LEMMA RunEnds ==
    ASSUME LimitAssumption, NEW s \in Seq(Nat), NEW time \in Nat, NEW k \in 1 .. Attempts,
           NEW t \in Nat, Ordered(s, time), Run(s, k, t), t + Window <= time
    PROVE  Over(s, time)
<1> SUFFICES ASSUME NEW i \in 1 .. Len(s), i <= Len(s) + 1 - Attempts
             PROVE  s[i] + Window <= time
  BY DEF Over
<1>1. Attempts \in Nat \ {0} /\ Window \in Nat /\ Len(s) \in Nat /\ s[i] \in Nat
  BY DEF LimitAssumption
<1> DEFINE p == Len(s) - k + 1
<1>2. p \in 1 .. Len(s) /\ i <= p /\ s[p] = t
  BY <1>1 DEF Run
<1>3. s[i] <= s[p]
  BY <1>2 DEF Ordered
<1>4. QED
  BY <1>1, <1>2, <1>3

(* The next attempt of a run that is not at its limit. *)
LEMMA RunGoesOn ==
    ASSUME LimitAssumption, NEW s \in Seq(0 .. MaxTime), now \in 0 .. MaxTime,
           NEW k \in 1 .. Attempts, k < Attempts, NEW t \in Nat, t <= now,
           Ordered(s, now), Run(s, k, t)
    PROVE  /\ Ordered(Remember(s), now) /\ Run(Remember(s), k + 1, t)
           /\ Spans(Remember(s))
<1> DEFINE r == Remember(s)
           p == Len(s) - k + 1
<1>1. Attempts \in Nat \ {0} /\ Window \in Nat /\ Len(s) \in Nat /\ Len(s) <= 2 * Attempts
  BY DEF LimitAssumption, Ordered
<1>2. r \in Seq(0 .. MaxTime) /\ \E c \in {0, 1} : Shifted(r, s, c)
  BY <1>1, RememberFacts
<1> HIDE DEF r
<1>3. PICK c : Shifted(r, s, c)
  BY <1>2
<1>4. /\ c \in Nat /\ c <= 1 /\ Len(r) = Len(s) + 1 - c
      /\ \A i \in 1 .. Len(r) : i # Len(r) => i + c \in 1 .. Len(s) /\ r[i] = s[i + c]
      /\ r[Len(r)] = now
  BY <1>3 DEF Shifted
<1>5. Ordered(r, now)
  BY <1>2, <1>3, RememberOrdered
<1>6. /\ p \in 1 .. Len(s) /\ s[p] = t
      /\ \A i \in 1 .. Len(s) : i <= p - Attempts => s[i] + Window <= t
  BY <1>1 DEF Run
<1>7. Run(r, k + 1, t)
  <2>1. /\ k + 1 <= Len(r) /\ Len(r) - (k + 1) + 1 = p - c
        /\ p - c \in 1 .. Len(r) /\ p - c # Len(r) /\ (p - c) + c = p
    BY <1>1, <1>3, <1>4, SMTT(60) DEF Run, Shifted
  <2>2. r[p - c] = t
    BY <1>4, <1>6, <2>1
  <2>3. ASSUME NEW i \in 1 .. Len(r), i <= Len(r) + 1 - (k + 1) - Attempts
        PROVE  r[i] + Window <= t
    <3>1. i # Len(r) /\ i + c <= p - Attempts
      BY <1>1, <1>4, <2>3, SMTT(60)
    <3>2. QED
      BY <1>4, <1>6, <3>1
  <2>4. QED
    BY <2>1, <2>2, <2>3 DEF Run
<1>8. Spans(r)
  <2> SUFFICES ASSUME Len(r) = 2 * Attempts PROVE r[2 * Attempts] - r[1] >= Window
    BY DEF Spans
  <2>1. 1 \in 1 .. Len(r) /\ 1 # Len(r) /\ 1 + c <= p - Attempts
    BY <1>1, <1>4
  <2>2. 1 + c \in 1 .. Len(s) /\ r[1] = s[1 + c] /\ s[1 + c] + Window <= t
    BY <1>4, <1>6, <2>1
  <2>3. s[1 + c] \in Nat /\ now \in Nat
    BY <2>2
  <2>4. r[2 * Attempts] = now
    BY <1>4
  <2>5. QED
    BY <1>1, <2>2, <2>3, <2>4
<1>9. QED
  BY <1>5, <1>7, <1>8 DEF r

(* The first attempt of a new run. *)
LEMMA RunStarts ==
    ASSUME LimitAssumption, NEW s \in Seq(0 .. MaxTime), now \in 0 .. MaxTime,
           Ordered(s, now), Over(s, now)
    PROVE  /\ Ordered(Remember(s), now) /\ Run(Remember(s), 1, now)
           /\ Spans(Remember(s))
<1> DEFINE r == Remember(s)
<1>1. Attempts \in Nat \ {0} /\ Window \in Nat /\ Len(s) \in Nat /\ Len(s) <= 2 * Attempts
  BY DEF LimitAssumption, Ordered
<1>2. r \in Seq(0 .. MaxTime) /\ \E c \in {0, 1} : Shifted(r, s, c)
  BY <1>1, RememberFacts
<1> HIDE DEF r
<1>3. PICK c : Shifted(r, s, c)
  BY <1>2
<1>4. /\ c \in Nat /\ c <= 1 /\ Len(r) = Len(s) + 1 - c
      /\ \A i \in 1 .. Len(r) : i # Len(r) => i + c \in 1 .. Len(s) /\ r[i] = s[i + c]
      /\ r[Len(r)] = now
      /\ c = 1 => Len(s) = 2 * Attempts
  BY <1>3 DEF Shifted
<1>5. Ordered(r, now)
  BY <1>2, <1>3, RememberOrdered
<1>6. \A i \in 1 .. Len(s) : i <= Len(s) + 1 - Attempts => s[i] + Window <= now
  BY DEF Over
<1>7. Run(r, 1, now)
  <2>1. 1 <= Len(r) /\ Len(r) - 1 + 1 = Len(r)
    BY <1>1, <1>4
  <2>2. ASSUME NEW i \in 1 .. Len(r), i <= Len(r) + 1 - 1 - Attempts
        PROVE  r[i] + Window <= now
    <3>1. i # Len(r) /\ i + c <= Len(s) + 1 - Attempts
      BY <1>1, <1>4, <2>2, SMTT(60)
    <3>2. QED
      BY <1>4, <1>6, <3>1
  <2>3. QED
    BY <1>4, <2>1, <2>2 DEF Run
<1>8. Spans(r)
  <2> SUFFICES ASSUME Len(r) = 2 * Attempts PROVE r[2 * Attempts] - r[1] >= Window
    BY DEF Spans
  <2>1. 1 \in 1 .. Len(r) /\ 1 # Len(r) /\ 1 + c <= Len(s) + 1 - Attempts
    BY <1>1, <1>4
  <2>2. 1 + c \in 1 .. Len(s) /\ r[1] = s[1 + c] /\ s[1 + c] + Window <= now
    BY <1>4, <1>6, <2>1
  <2>3. s[1 + c] \in Nat /\ now \in Nat
    BY <2>2
  <2>4. r[2 * Attempts] = now
    BY <1>4
  <2>5. QED
    BY <1>1, <2>2, <2>3, <2>4
<1>9. QED
  BY <1>5, <1>7, <1>8 DEF r

-----------------------------------------------------------------------------
(* The table. *)

Table == [Slots -> Entry \cup {Free}]

(* A set of natural numbers that is not empty has a least member. *)
LEMMA LeastMember ==
    ASSUME NEW T, T \subseteq Nat, T # {}
    PROVE  Min(T) \in T /\ \A y \in T : Min(T) <= y
<1> DEFINE R == {ss \in Nat \X Nat : ss[1] < ss[2]}
<1>1. IsWellFoundedOn(R, Nat)
  BY NatLessThanWellFounded DEF OpToRel
<1> HIDE DEF R
<1>2. PICK x \in T : \A y \in T : <<y, x>> \notin R
  BY <1>1, WFMin
<1>3. \A y \in T : ~(y < x)
  BY <1>2 DEF R
<1>4. \E z \in T : \A y \in T : z <= y
  BY <1>3
<1>5. QED
  BY <1>4 DEF Min

LEMMA MinSlot ==
    ASSUME LimitAssumption, NEW T, T \subseteq Slots, T # {}
    PROVE  Min(T) \in T
<1>1. T \subseteq Nat
  BY DEF Slots, LimitAssumption
<1>2. QED
  BY <1>1, LeastMember

LEMMA EntryFacts ==
    ASSUME NEW e \in Entry \cup {Free}, NEW time \in Nat
    PROVE  /\ e.in_use <=> e # Free
           /\ e # Free => e \in Entry
           /\ Expired(e, time) <=> e # Free /\ (time < e.started \/ time - e.started >= Window)
<1>1. Free.in_use = FALSE
  BY DEF Free
<1>2. e \in Entry => e.in_use = TRUE
  BY DEF Entry
<1>3. e.in_use <=> e # Free
  BY <1>1, <1>2
<1>4. QED
  BY <1>3 DEF Expired

LEMMA MatchFacts ==
    ASSUME NEW table \in Table, NEW a \in Addresses, NEW time \in Nat
    PROVE  /\ Matches(table, a, time) \subseteq Slots
           /\ \A i \in Slots : i \in Matches(table, a, time)
                                  <=> Counts(table[i], a) /\ ~Expired(table[i], time)
<1>1. \A i \in Slots : table[i].in_use <=> table[i] # Free
  BY EntryFacts DEF Table
<1>2. QED
  BY <1>1 DEF Matches, Counts

LEMMA ReclaimFacts ==
    ASSUME LimitAssumption, NEW table \in Table, NEW a \in Addresses, NEW time \in Nat
    PROVE  LET r == Reclaim(table, a, time)
           IN  /\ r \in Table
               /\ \A i \in Slots : r[i] = table[i] \/ (r[i] = Free /\ Expired(table[i], time))
               /\ Matches(table, a, time) = {}
                     => \A i \in Slots : Expired(table[i], time) => r[i] = Free
<1>1. Matches(table, a, time) = {} => Scanned(table, a, time) = Slots
  BY DEF Scanned
<1>2. QED
  BY <1>1 DEF Reclaim, Table

Opened(a, time) == [in_use |-> TRUE, address |-> a, attempts |-> 1, started |-> time]

(* The four ways an attempt ends. *)
Limited(table, a, time, o) ==
    /\ o.result = "RATE_LIMITED" /\ o.table = Reclaim(table, a, time)
    /\ \E k \in Matches(table, a, time) :
          /\ table[k].attempts >= Attempts
          /\ o.retry = RetryAfter(table[k], time)

Counted(table, a, time, o) ==
    /\ o.result = "ALLOWED"
    /\ \E k \in Matches(table, a, time) :
          /\ ~(table[k].attempts >= Attempts)
          /\ o.table = [Reclaim(table, a, time) EXCEPT ![k].attempts = @ + 1]

Crowded(table, a, time, o) ==
    /\ o.result = "CAPACITY" /\ o.table = Reclaim(table, a, time)
    /\ Matches(table, a, time) = {}
    /\ \A i \in Slots : Reclaim(table, a, time)[i] # Free
    /\ o.retry = Min({RetryAfter(Reclaim(table, a, time)[i], time) : i \in Slots})

Begun(table, a, time, o) ==
    /\ o.result = "ALLOWED"
    /\ Matches(table, a, time) = {}
    /\ \E k \in Slots :
          /\ Reclaim(table, a, time)[k] = Free
          /\ o.table = [Reclaim(table, a, time) EXCEPT ![k] = Opened(a, time)]

LEMMA OutcomeCases ==
    ASSUME LimitAssumption, NEW table \in Table, NEW a \in Addresses, NEW time \in Nat
    PROVE  LET o == Outcome(table, a, time)
           IN  \/ Limited(table, a, time, o) \/ Counted(table, a, time, o)
               \/ Crowded(table, a, time, o) \/ Begun(table, a, time, o)
<1> DEFINE o == Outcome(table, a, time)
           r == Reclaim(table, a, time)
           hits == Matches(table, a, time)
           k == Min(hits)
<1>1. r \in Table
  BY ReclaimFacts
<1>2. hits # {} => k \in hits /\ r[k] = table[k]
  <2>1. hits \subseteq Slots
    BY MatchFacts
  <2>2. ASSUME hits # {} PROVE k \in hits
    BY <2>1, <2>2, MinSlot
  <2>3. \A i \in hits : r[i] = table[i]
    BY <2>1, MatchFacts, ReclaimFacts
  <2>4. QED
    BY <2>2, <2>3
<1>3. \A i \in Slots : i \in FreeSlots(r) <=> r[i] = Free
  <2>1. \A i \in Slots : r[i].in_use <=> r[i] # Free
    BY <1>1, EntryFacts DEF Table
  <2>2. QED
    BY <2>1 DEF FreeSlots
<1>4. FreeSlots(r) # {} => Min(FreeSlots(r)) \in FreeSlots(r)
  BY MinSlot DEF FreeSlots
<1>5. FreeSlots(r) \subseteq Slots
  BY DEF FreeSlots
<1>6. CASE hits # {} /\ AtLimit(r[k])
  <2>1. o = [result |-> "RATE_LIMITED", table |-> r, retry |-> RetryAfter(r[k], time)]
    BY <1>6 DEF Outcome
  <2>2. o.result = "RATE_LIMITED" /\ o.table = r /\ o.retry = RetryAfter(r[k], time)
    BY <2>1
  <2>3. Limited(table, a, time, o)
    BY <1>2, <1>6, <2>2 DEF Limited, AtLimit
  <2>4. QED
    BY <2>3
<1>7. CASE hits # {} /\ ~AtLimit(r[k])
  <2>1. o = [result |-> "ALLOWED", retry |-> 0, table |-> [r EXCEPT ![k].attempts = @ + 1]]
    BY <1>7 DEF Outcome
  <2>2. o.result = "ALLOWED" /\ o.table = [r EXCEPT ![k].attempts = @ + 1]
    BY <2>1
  <2>3. Counted(table, a, time, o)
    BY <1>2, <1>7, <2>2 DEF Counted, AtLimit
  <2>4. QED
    BY <2>3
<1>8. CASE hits = {} /\ FreeSlots(r) = {}
  <2>1. o = [result |-> "CAPACITY", table |-> r,
             retry |-> Min({RetryAfter(r[i], time) : i \in Slots})]
    BY <1>8 DEF Outcome
  <2>2. /\ o.result = "CAPACITY" /\ o.table = r
        /\ o.retry = Min({RetryAfter(r[i], time) : i \in Slots})
    BY <2>1
  <2>3. Crowded(table, a, time, o)
    BY <1>3, <1>8, <2>2 DEF Crowded
  <2>4. QED
    BY <2>3
<1>9. CASE hits = {} /\ FreeSlots(r) # {}
  <2> DEFINE f == Min(FreeSlots(r))
  <2>1. o = [result |-> "ALLOWED", retry |-> 0, table |-> [r EXCEPT ![f] = Opened(a, time)]]
    BY <1>9 DEF Outcome, Opened
  <2>2. o.result = "ALLOWED" /\ o.table = [r EXCEPT ![f] = Opened(a, time)]
    BY <2>1
  <2>3. f \in Slots /\ r[f] = Free
    BY <1>3, <1>4, <1>5, <1>9
  <2> HIDE DEF f
  <2>4. Begun(table, a, time, o)
    BY <1>9, <2>2, <2>3 DEF Begun
  <2>5. QED
    BY <2>4
<1>10. QED
  BY <1>6, <1>7, <1>8, <1>9

-----------------------------------------------------------------------------
(* Every step keeps the invariant. *)

Typed(table) == table \in Table /\ Unique(table) /\ Past(table, now)

LEMMA Constants ==
    /\ LimitAssumption /\ Attempts \in Nat \ {0} /\ Window \in Nat \ {0}
    /\ TableSize \in Nat \ {0} /\ MaxTime \in Nat
BY LimitAssumption DEF LimitAssumption

(* An entry is reclaimed only when its run is over. *)
LEMMA ReclaimKeeps ==
    ASSUME LimitInv, NEW a \in Addresses
    PROVE  /\ Typed(Reclaim(entries, a, now))
           /\ \A b \in Addresses : Measured(Reclaim(entries, a, now), allowed[b], b, now)
<1> DEFINE r == Reclaim(entries, a, now)
<1>1. entries \in Table /\ now \in Nat /\ Unique(entries) /\ Past(entries, now)
  BY Constants DEF LimitInv, LimiterTypeOK, Table
<1>2. /\ r \in Table
      /\ \A i \in Slots : r[i] = entries[i] \/ (r[i] = Free /\ Expired(entries[i], now))
  BY <1>1, Constants, ReclaimFacts
<1> HIDE DEF r
<1>3. Unique(r) /\ Past(r, now)
  BY <1>1, <1>2 DEF Unique, Past, Counts
<1>4. ASSUME NEW b \in Addresses PROVE Measured(r, allowed[b], b, now)
  <2> DEFINE s == allowed[b]
  <2>1. Measured(entries, s, b, now) /\ s \in Seq(0 .. MaxTime) /\ s \in Seq(Nat)
    BY Constants DEF LimitInv, LimiterTypeOK
  <2> HIDE DEF s
  <2>2. \A i \in Slots : Counts(r[i], b) => Run(s, r[i].attempts, r[i].started)
    BY <1>2, <2>1 DEF Measured, Counts
  <2>3. ASSUME \A i \in Slots : ~Counts(r[i], b) PROVE Over(s, now)
    <3>1. CASE \A i \in Slots : ~Counts(entries[i], b)
      BY <2>1, <3>1 DEF Measured
    <3>2. ASSUME NEW i \in Slots, Counts(entries[i], b) PROVE Over(s, now)
      <4> DEFINE e == entries[i]
      <4>1. Expired(e, now) /\ e # Free /\ e \in Entry \cup {Free}
        BY <1>1, <1>2, <2>3, <3>2 DEF Counts, Table
      <4>2. e \in Entry /\ (now < e.started \/ now - e.started >= Window)
        BY <1>1, <4>1, EntryFacts
      <4>3. e.started <= now /\ Run(s, e.attempts, e.started)
        BY <1>1, <2>1, <3>2, <4>1 DEF Past, Measured
      <4> HIDE DEF e
      <4>4. e.attempts \in 1 .. Attempts /\ e.started \in Nat
        BY <4>2 DEF Entry
      <4>5. e.started + Window <= now
        BY <1>1, <4>2, <4>3, <4>4, Constants
      <4>6. QED
        BY <1>1, <2>1, <4>3, <4>4, <4>5, Constants, RunEnds DEF Measured
    <3>3. QED
      BY <3>1, <3>2
  <2>4. QED
    BY <2>1, <2>2, <2>3 DEF Measured, s
<1>5. QED
  BY <1>2, <1>3, <1>4 DEF Typed, r

LEMMA CountUpdate ==
    ASSUME LimitAssumption, NEW c \in Entry, c.attempts < Attempts
    PROVE  LET e == [c EXCEPT !.attempts = @ + 1]
           IN  /\ e \in Entry /\ e.address = c.address /\ e.started = c.started
               /\ e.attempts = c.attempts + 1
<1>1. Attempts \in Nat /\ c.attempts + 1 \in 1 .. Attempts
  BY DEF Entry, LimitAssumption
<1>2. QED
  BY <1>1 DEF Entry

LEMMA RecordStep ==
    ASSUME LimitInv, NEW a \in Addresses, Record(a)
    PROVE  LimitInv'
<1> DEFINE r == Reclaim(entries, a, now)
           o == Outcome(entries, a, now)
           s == allowed[a]
           t == Remember(s)
<1>1. /\ entries \in Table /\ now \in Nat /\ now \in 0 .. MaxTime
      /\ allowed \in [Addresses -> Seq(0 .. MaxTime)] /\ s \in Seq(0 .. MaxTime)
  BY Constants DEF LimitInv, LimiterTypeOK, Table
<1>2. /\ Typed(r) /\ \A b \in Addresses : Measured(r, allowed[b], b, now)
      /\ \A i \in Slots : r[i] = entries[i] \/ (r[i] = Free /\ Expired(entries[i], now))
      /\ Matches(entries, a, now) = {}
            => \A i \in Slots : Expired(entries[i], now) => r[i] = Free
  BY <1>1, Constants, ReclaimKeeps, ReclaimFacts
<1>3. /\ entries' = o.table /\ now' = now
      /\ o.result = "ALLOWED" => allowed' = [allowed EXCEPT ![a] = t]
      /\ o.result # "ALLOWED" => allowed' = allowed
  BY DEF Record
<1>4. t \in Seq(0 .. MaxTime)
  BY <1>1, Constants, RememberFacts DEF LimitInv, Measured, Ordered
<1>5. \/ Limited(entries, a, now, o) \/ Counted(entries, a, now, o)
      \/ Crowded(entries, a, now, o) \/ Begun(entries, a, now, o)
  BY <1>1, Constants, OutcomeCases
<1>6. Ordered(s, now)
  BY DEF LimitInv, Measured
<1> HIDE DEF r, o, t
<1>7. CASE Limited(entries, a, now, o) \/ Crowded(entries, a, now, o)
  <2>1. entries' = r /\ allowed' = allowed
    BY <1>3, <1>7 DEF Limited, Crowded, r
  <2>2. QED
    BY <1>1, <1>2, <1>3, <2>1 DEF LimitInv, LimiterTypeOK, Typed, Table
<1>8. ASSUME NEW k \in Slots, NEW e \in Entry, e.address = a, e.started <= now,
             entries' = [r EXCEPT ![k] = e], allowed' = [allowed EXCEPT ![a] = t],
             \A i \in Slots : Counts(r[i], a) => i = k,
             r[k] = Free \/ Counts(r[k], a),
             Ordered(t, now), Run(t, e.attempts, e.started), Spans(t)
      PROVE  LimitInv'
  <2>1. /\ entries' \in Table /\ entries'[k] = e
        /\ \A i \in Slots : i # k => entries'[i] = r[i]
    BY <1>2, <1>8 DEF Typed, Table
  <2>2. /\ allowed' \in [Addresses -> Seq(0 .. MaxTime)] /\ allowed'[a] = t
        /\ \A b \in Addresses : b # a => allowed'[b] = allowed[b]
    BY <1>1, <1>4, <1>8
  <2>3. e # Free
    BY DEF Entry, Free
  <2>4. Unique(entries')
    <3> SUFFICES ASSUME NEW i \in Slots, NEW j \in Slots, NEW b \in Addresses,
                        Counts(entries'[i], b), Counts(entries'[j], b)
                 PROVE  i = j
      BY DEF Unique
    <3>1. CASE b = a
      BY <1>8, <2>1, <3>1
    <3>2. CASE b # a
      <4>1. i # k /\ j # k
        BY <1>8, <2>1, <3>2 DEF Counts
      <4>2. QED
        BY <1>2, <2>1, <4>1 DEF Typed, Unique
    <3>3. QED
      BY <3>1, <3>2
  <2>5. Past(entries', now)
    BY <1>2, <1>8, <2>1 DEF Typed, Past
  <2>6. ASSUME NEW b \in Addresses PROVE Measured(entries', allowed'[b], b, now)
    <3>1. CASE b = a
      <4>1. Counts(entries'[k], a)
        BY <1>8, <2>1, <2>3 DEF Counts
      <4>2. \A i \in Slots : Counts(entries'[i], a) => i = k
        BY <2>4, <4>1 DEF Unique
      <4>3. QED
        BY <1>8, <2>1, <2>2, <3>1, <4>1, <4>2 DEF Measured
    <3>2. CASE b # a
      <4>1. \A i \in Slots : Counts(entries'[i], b) => i # k
        BY <1>8, <2>1, <3>2 DEF Counts
      <4>2. ~Counts(r[k], b)
        BY <1>8, <3>2 DEF Counts
      <4>3. Measured(r, allowed[b], b, now)
        BY <1>2
      <4>4. QED
        BY <2>1, <2>2, <3>2, <4>1, <4>2, <4>3 DEF Measured
    <3>3. QED
      BY <3>1, <3>2
  <2>7. QED
    BY <1>1, <1>3, <2>1, <2>2, <2>4, <2>5, <2>6 DEF LimitInv, LimiterTypeOK, Table
<1>9. CASE Counted(entries, a, now, o)
  <2>1. PICK k \in Matches(entries, a, now) :
           /\ ~(entries[k].attempts >= Attempts)
           /\ entries' = [r EXCEPT ![k].attempts = @ + 1]
    BY <1>3, <1>9 DEF Counted, r
  <2>2. k \in Slots /\ Counts(entries[k], a) /\ ~Expired(entries[k], now)
    BY <1>1, MatchFacts
  <2>3. r[k] = entries[k] /\ r[k] \in Entry
    BY <1>1, <1>2, <2>2 DEF Counts, Table
  <2> DEFINE e == [r[k] EXCEPT !.attempts = @ + 1]
  <2>4. /\ r[k].attempts \in 1 .. Attempts /\ r[k].attempts < Attempts /\ r[k].started \in Nat
        /\ r[k].started <= now
    <3>1. r[k].attempts \in 1 .. Attempts /\ r[k].started \in Nat
      BY <2>3 DEF Entry
    <3>2. ~(r[k].attempts >= Attempts)
      BY <2>1, <2>3
    <3>3. r[k] # Free
      BY <2>2, <2>3 DEF Counts
    <3>4. r[k].started <= now
      BY <1>2, <2>2, <3>3 DEF Typed, Past
    <3>5. r[k].attempts < Attempts
      BY <3>1, <3>2, Constants
    <3>6. QED
      BY <3>1, <3>4, <3>5
  <2>5. /\ e \in Entry /\ e.address = a /\ e.started = r[k].started
        /\ e.attempts = r[k].attempts + 1
    <3>1. r[k].address = a
      BY <2>2, <2>3 DEF Counts
    <3>2. QED
      BY <2>3, <2>4, <3>1, Constants, CountUpdate
  <2>6. entries' = [r EXCEPT ![k] = e]
    BY <2>1
  <2>7. \A i \in Slots : Counts(r[i], a) => i = k
    BY <1>2, <2>2, <2>3 DEF Typed, Unique
  <2>8. Run(s, r[k].attempts, r[k].started)
    BY <1>2, <2>2, <2>3 DEF Measured
  <2>9. Ordered(t, now) /\ Run(t, r[k].attempts + 1, r[k].started) /\ Spans(t)
    BY <1>1, <1>6, <2>4, <2>8, Constants, RunGoesOn DEF t
  <2>10. allowed' = [allowed EXCEPT ![a] = t]
    BY <1>3, <1>9 DEF Counted
  <2> HIDE DEF e
  <2>11. e.started <= now /\ Run(t, e.attempts, e.started) /\ Counts(r[k], a)
    BY <2>2, <2>3, <2>4, <2>5, <2>9
  <2>12. QED
    BY <1>8, <2>2, <2>5, <2>6, <2>7, <2>9, <2>10, <2>11
<1>10. CASE Begun(entries, a, now, o)
  <2>1. PICK k \in Slots : r[k] = Free /\ entries' = [r EXCEPT ![k] = Opened(a, now)]
    BY <1>3, <1>10 DEF Begun, r
  <2> DEFINE e == Opened(a, now)
  <2>2. e \in Entry /\ e.address = a /\ e.started = now /\ e.attempts = 1
    BY <1>1, Constants DEF Opened, Entry
  <2>3. \A i \in Slots : ~Counts(r[i], a)
    <3> SUFFICES ASSUME NEW i \in Slots, Counts(r[i], a) PROVE FALSE
      OBVIOUS
    <3>1. r[i] = entries[i] /\ Counts(entries[i], a)
      BY <1>2 DEF Counts
    <3>2. Expired(entries[i], now)
      BY <1>1, <1>10, <3>1, MatchFacts DEF Begun
    <3>3. r[i] = Free
      BY <1>2, <1>10, <3>2 DEF Begun
    <3>4. QED
      BY <3>3 DEF Counts
  <2>4. Over(s, now)
    BY <1>2, <2>3 DEF Measured
  <2>5. Ordered(t, now) /\ Run(t, 1, now) /\ Spans(t)
    BY <1>1, <1>6, <2>4, Constants, RunStarts DEF t
  <2>6. allowed' = [allowed EXCEPT ![a] = t]
    BY <1>3, <1>10 DEF Begun
  <2> HIDE DEF e
  <2>7. e.started <= now /\ Run(t, e.attempts, e.started) /\ entries' = [r EXCEPT ![k] = e]
    BY <1>1, <2>1, <2>2, <2>5 DEF e
  <2>8. QED
    BY <1>8, <2>1, <2>2, <2>3, <2>5, <2>6, <2>7
<1>11. QED
  BY <1>5, <1>7, <1>9, <1>10

LEMMA TickStep ==
    ASSUME LimitInv, Tick
    PROVE  LimitInv'
<1>1. now \in 0 .. MaxTime /\ now' = now + 1 /\ entries' = entries /\ allowed' = allowed
      /\ now' \in 0 .. MaxTime
  BY Constants DEF LimitInv, LimiterTypeOK, Tick
<1>2. Past(entries, now)'
  <2>1. \A i \in Slots : entries[i] # Free => entries[i].started \in Nat
    BY DEF LimitInv, LimiterTypeOK, Entry
  <2>2. \A i \in Slots : entries[i] # Free => entries[i].started <= now
    BY DEF LimitInv, Past
  <2>3. \A i \in Slots : entries[i] # Free => entries[i].started <= now + 1
    BY <1>1, <2>1, <2>2
  <2>4. QED
    BY <1>1, <2>3 DEF Past
<1>3. ASSUME NEW a \in Addresses PROVE Measured(entries, allowed[a], a, now)'
  <2> DEFINE s == allowed[a]
  <2>1. s \in Seq(0 .. MaxTime) /\ Measured(entries, s, a, now)
    BY DEF LimitInv, LimiterTypeOK
  <2> HIDE DEF s
  <2>2. Ordered(s, now) => Ordered(s, now')
    BY <1>1, <2>1, Constants DEF Ordered
  <2>3. Over(s, now) => Over(s, now')
    BY <1>1, <2>1, Constants DEF Over
  <2>4. Measured(entries, s, a, now')
    BY <2>1, <2>2, <2>3 DEF Measured
  <2>5. QED
    BY <1>1, <2>4 DEF s
<1>4. QED
  BY <1>1, <1>2, <1>3 DEF LimitInv, LimiterTypeOK, Unique

LEMMA LimitInit == LimiterInit => LimitInv
<1> SUFFICES ASSUME LimiterInit PROVE LimitInv
  OBVIOUS
<1>1. LimiterTypeOK
  BY Constants DEF LimiterInit, LimiterTypeOK
<1>2. Unique(entries) /\ Past(entries, now)
  BY DEF LimiterInit, Unique, Past, Counts
<1>3. ASSUME NEW a \in Addresses PROVE Measured(entries, allowed[a], a, now)
  <2>1. allowed[a] = <<>> /\ \A i \in Slots : ~Counts(entries[i], a)
    BY DEF LimiterInit, Counts
  <2>2. QED
    BY <2>1, Constants DEF Measured, Ordered, Spans, Over
<1>4. QED
  BY <1>1, <1>2, <1>3 DEF LimitInv

LEMMA LimitNext == LimitInv /\ [LimiterNext]_limiter_vars => LimitInv'
<1> SUFFICES ASSUME LimitInv, [LimiterNext]_limiter_vars PROVE LimitInv'
  OBVIOUS
<1>1. CASE UNCHANGED limiter_vars
  BY <1>1 DEF limiter_vars, LimitInv, LimiterTypeOK
<1>2. QED
  BY <1>1, RecordStep, TickStep DEF LimiterNext

(* At most one entry counts an address, no entry is from the future, and   *)
(* the times of the allowed attempts form runs.                            *)
LEMMA LimitInvariant == LimiterSpec => []LimitInv
BY LimitInit, LimitNext, PTL DEF LimiterSpec

(* The limiter enforces its rate: in any window an address is allowed      *)
(* fewer than 2 * Attempts attempts, however entries expire, are reclaimed *)
(* by the scans of other addresses or find the table full.                 *)
THEOREM RateIsBounded == LimiterSpec => []RateBound
<1>1. LimitInv => RateBound
  BY DEF LimitInv, Measured, Spans, RateBound
<1>2. QED
  BY <1>1, LimitInvariant, PTL

-----------------------------------------------------------------------------
(* The time to retry. *)

(* An entry expires RetryAfter seconds from now and not before. *)
LEMMA RetryTime ==
    ASSUME LimitAssumption, NEW e \in Entry, NEW time \in Nat, e.started <= time,
           ~Expired(e, time)
    PROVE  /\ RetryAfter(e, time) \in Nat \ {0}
           /\ \A d \in Nat : d < RetryAfter(e, time) => ~Expired(e, time + d)
           /\ Expired(e, time + RetryAfter(e, time))
<1>1. e.started \in Nat /\ e.in_use = TRUE /\ Window \in Nat \ {0}
  BY DEF Entry, LimitAssumption
<1>2. time - e.started < Window
  BY <1>1 DEF Expired
<1>3. RetryAfter(e, time) = Window - (time - e.started)
  BY <1>1, <1>2 DEF RetryAfter
<1>4. QED
  BY <1>1, <1>2, <1>3 DEF Expired

(* An unexpired entry at the limit refuses its address. *)
LEMMA StillLimited ==
    ASSUME LimitAssumption, NEW table \in Table, Unique(table), NEW a \in Addresses,
           NEW time \in Nat, NEW k \in Slots, Counts(table[k], a),
           table[k].attempts >= Attempts, ~Expired(table[k], time)
    PROVE  Outcome(table, a, time).result # "ALLOWED"
<1> DEFINE o == Outcome(table, a, time)
<1>1. k \in Matches(table, a, time)
  BY MatchFacts
<1>2. \A i \in Matches(table, a, time) : i = k
  BY MatchFacts DEF Unique
<1>3. ~Begun(table, a, time, o) /\ ~Counted(table, a, time, o)
  BY <1>1, <1>2 DEF Begun, Counted
<1>4. Limited(table, a, time, o) \/ Crowded(table, a, time, o)
  BY <1>3, OutcomeCases
<1>5. QED
  BY <1>4 DEF Limited, Crowded

(* So does a table full of unexpired entries of other addresses. *)
LEMMA StillFull ==
    ASSUME LimitAssumption, NEW table \in Table, NEW a \in Addresses, NEW time \in Nat,
           \A i \in Slots : table[i] # Free /\ ~Expired(table[i], time) /\ ~Counts(table[i], a)
    PROVE  Outcome(table, a, time).result # "ALLOWED"
<1> DEFINE o == Outcome(table, a, time)
<1>1. Matches(table, a, time) = {}
  BY MatchFacts
<1>2. \A i \in Slots : Reclaim(table, a, time)[i] # Free
  BY ReclaimFacts
<1>3. ~Begun(table, a, time, o) /\ ~Counted(table, a, time, o)
  BY <1>1, <1>2 DEF Begun, Counted
<1>4. Limited(table, a, time, o) \/ Crowded(table, a, time, o)
  BY <1>3, OutcomeCases
<1>5. QED
  BY <1>4 DEF Limited, Crowded

(* An expired entry makes room for an address no other entry counts. *)
LEMMA RoomAgain ==
    ASSUME LimitAssumption, NEW table \in Table, NEW a \in Addresses, NEW time \in Nat,
           NEW k \in Slots, Expired(table[k], time),
           \A i \in Slots : Counts(table[i], a) => Expired(table[i], time)
    PROVE  Outcome(table, a, time).result = "ALLOWED"
<1> DEFINE o == Outcome(table, a, time)
<1>1. Matches(table, a, time) = {}
  BY MatchFacts
<1>2. Reclaim(table, a, time)[k] = Free
  BY <1>1, ReclaimFacts
<1>3. ~Limited(table, a, time, o) /\ ~Crowded(table, a, time, o)
  BY <1>1, <1>2 DEF Limited, Crowded
<1>4. Begun(table, a, time, o) \/ Counted(table, a, time, o)
  BY <1>3, OutcomeCases
<1>5. QED
  BY <1>4 DEF Begun, Counted

(* The invariant makes the time to retry exact: at most one entry counts   *)
(* the address, and no entry is from the future.                           *)
LEMMA ExactRetry == LimitInv => RetryIsExact
<1> SUFFICES ASSUME LimitInv, NEW a \in Addresses,
                    Outcome(entries, a, now).result # "ALLOWED"
             PROVE  LET o == Outcome(entries, a, now)
                    IN  /\ Outcome(o.table, a, now + o.retry).result = "ALLOWED"
                        /\ \A d \in 0 .. o.retry - 1 :
                              Outcome(o.table, a, now + d).result # "ALLOWED"
  BY DEF RetryIsExact
<1> DEFINE o == Outcome(entries, a, now)
           r == Reclaim(entries, a, now)
<1>1. entries \in Table /\ now \in Nat /\ Past(entries, now)
  BY Constants DEF LimitInv, LimiterTypeOK, Table
<1>2. /\ r \in Table /\ Unique(r) /\ Past(r, now)
      /\ \A i \in Slots : r[i] = entries[i] \/ (r[i] = Free /\ Expired(entries[i], now))
      /\ Matches(entries, a, now) = {}
            => \A i \in Slots : Expired(entries[i], now) => r[i] = Free
  BY <1>1, Constants, ReclaimKeeps, ReclaimFacts DEF Typed
<1>3. Limited(entries, a, now, o) \/ Crowded(entries, a, now, o)
  BY <1>1, Constants, OutcomeCases DEF Counted, Begun
<1> HIDE DEF o, r
<1>4. o.table = r
  BY <1>3 DEF Limited, Crowded, r
<1>5. SUFFICES /\ o.retry \in Nat
               /\ Outcome(r, a, now + o.retry).result = "ALLOWED"
               /\ \A d \in Nat : d < o.retry => Outcome(r, a, now + d).result # "ALLOWED"
  BY <1>4 DEF o
<1>6. CASE Limited(entries, a, now, o)
  <2>1. PICK k \in Matches(entries, a, now) :
           entries[k].attempts >= Attempts /\ o.retry = RetryAfter(entries[k], now)
    BY <1>6 DEF Limited
  <2>2. k \in Slots /\ Counts(entries[k], a) /\ ~Expired(entries[k], now)
    BY <1>1, MatchFacts
  <2>3. r[k] = entries[k]
    BY <1>2, <2>2
  <2>4. r[k] \in Entry /\ r[k].started <= now
    BY <1>2, <2>2, <2>3 DEF Past, Counts, Table
  <2>5. /\ o.retry \in Nat \ {0} /\ Expired(r[k], now + o.retry)
        /\ \A d \in Nat : d < o.retry => ~Expired(r[k], now + d)
    BY <1>1, <2>1, <2>2, <2>3, <2>4, Constants, RetryTime
  <2>6. \A i \in Slots : Counts(r[i], a) => i = k
    BY <1>2, <2>2, <2>3 DEF Unique
  <2>7. Outcome(r, a, now + o.retry).result = "ALLOWED"
    BY <1>1, <1>2, <2>2, <2>5, <2>6, Constants, RoomAgain
  <2>8. ASSUME NEW d \in Nat, d < o.retry PROVE Outcome(r, a, now + d).result # "ALLOWED"
    <3>1. now + d \in Nat /\ ~Expired(r[k], now + d)
      BY <1>1, <2>5, <2>8
    <3>2. Counts(r[k], a) /\ r[k].attempts >= Attempts
      BY <2>1, <2>2, <2>3
    <3>3. QED
      BY <1>2, <2>2, <3>1, <3>2, Constants, StillLimited
  <2>9. QED
    BY <2>5, <2>7, <2>8
<1>7. CASE Crowded(entries, a, now, o)
  <2> DEFINE W == {RetryAfter(r[i], now) : i \in Slots}
  <2>1. /\ Matches(entries, a, now) = {} /\ o.retry = Min(W)
        /\ \A i \in Slots : r[i] # Free
    BY <1>7 DEF Crowded, r
  <2>2. ASSUME NEW i \in Slots
        PROVE  r[i] \in Entry /\ r[i].started <= now /\ ~Expired(r[i], now) /\ ~Counts(r[i], a)
    <3>1. r[i] = entries[i] /\ ~Expired(entries[i], now)
      BY <1>2, <2>1
    <3>2. r[i] \in Entry /\ r[i].started <= now
      BY <1>2, <2>1 DEF Table, Past
    <3>3. ~Counts(entries[i], a)
      BY <1>1, <2>1, <3>1, MatchFacts
    <3>4. QED
      BY <3>1, <3>2, <3>3
  <2>3. \A i \in Slots :
           /\ RetryAfter(r[i], now) \in Nat \ {0}
           /\ \A d \in Nat : d < RetryAfter(r[i], now) => ~Expired(r[i], now + d)
           /\ Expired(r[i], now + RetryAfter(r[i], now))
    BY <1>1, <2>2, Constants, RetryTime
  <2>4. W \subseteq Nat /\ W # {}
    <3>1. 1 \in Slots
      BY Constants DEF Slots
    <3>2. QED
      BY <2>3, <3>1
  <2>5. o.retry \in W /\ \A y \in W : o.retry <= y
    BY <2>1, <2>4, LeastMember
  <2>6. PICK j \in Slots : o.retry = RetryAfter(r[j], now)
    BY <2>5
  <2>7. o.retry \in Nat /\ Expired(r[j], now + o.retry) /\ now + o.retry \in Nat
    BY <1>1, <2>3, <2>6
  <2>8. \A i \in Slots : o.retry <= RetryAfter(r[i], now)
    BY <2>5
  <2> HIDE DEF W
  <2>9. Outcome(r, a, now + o.retry).result = "ALLOWED"
    BY <1>2, <2>2, <2>7, Constants, RoomAgain
  <2>10. ASSUME NEW d \in Nat, d < o.retry PROVE Outcome(r, a, now + d).result # "ALLOWED"
    <3>1. now + d \in Nat
      BY <1>1
    <3>2. \A i \in Slots : d < RetryAfter(r[i], now)
      BY <2>3, <2>7, <2>8, <2>10
    <3>3. \A i \in Slots : r[i] # Free /\ ~Expired(r[i], now + d) /\ ~Counts(r[i], a)
      BY <2>1, <2>2, <2>3, <3>2
    <3>4. QED
      BY <1>2, <3>1, <3>3, Constants, StillFull
  <2>11. QED
    BY <2>7, <2>9, <2>10
<1>8. QED
  BY <1>3, <1>6, <1>7

(* A refusal names the second at which the same attempt is next allowed.   *)
(* It is the entry of the address that has to expire, or the oldest entry  *)
(* of a full table, and neither is evicted before.                         *)
THEOREM RefusalsAreExact == LimiterSpec => []RetryIsExact
BY LimitInvariant, ExactRetry, PTL
=============================================================================
