--------------------------- MODULE JobQueueProofs ---------------------------
(* Theorems about JobQueue for any job table, key set, attempt limits and  *)
(* number of crashes and database errors.                                  *)
EXTENDS JobQueue, JobStoreProofs

\* How the worker's record changes when it moves on, ends a job, or rests.
LEMMA GotoFields ==
    ASSUME worker \in WorkerState, NEW p \in Positions, Goto(p)
    PROVE  /\ worker' \in WorkerState
           /\ worker'.pc = p
           /\ worker'.job = worker.job
           /\ worker'.doomed = worker.doomed
           /\ worker'.outcome = worker.outcome
  BY DEF WorkerState, Goto

LEMMA FinishingFields ==
    ASSUME worker \in WorkerState, NEW s \in Outcomes, Finishing(s)
    PROVE  /\ worker' \in WorkerState
           /\ worker'.pc = "finishing"
           /\ worker'.job = worker.job
           /\ worker'.doomed = worker.doomed
           /\ worker'.outcome = s
  BY DEF WorkerState, Finishing, Positions

LEMMA RestingFields ==
    ASSUME NEW p \in {"down", "idle"}
    PROVE  /\ Resting(p) \in WorkerState
           /\ Resting(p).pc = p
           /\ Resting(p).outcome = "none"
           /\ Resting(p).doomed = FALSE
  BY DEF WorkerState, Resting, Positions, Outcomes

\* One step keeps the types.
LEMMA TypeStep == TypeOK /\ [Next]_vars => TypeOK'
  <1> SUFFICES ASSUME TypeOK, [Next]_vars PROVE TypeOK'
    OBVIOUS
  <1> USE DEF TypeOK
  <1>0. ASSUME UNCHANGED jobs PROVE JobsTypeOK'
    BY <1>0 DEF JobsTypeOK
  <1>1. ASSUME NEW k \in Keys, Enqueue(k) PROVE TypeOK'
    BY <1>1, EnqueueTypes DEF Enqueue
  <1>2. ASSUME NEW j \in JobIds, RequestCancel(j) PROVE TypeOK'
    BY <1>2, UpdateTypes DEF RequestCancel
  <1>3. CASE StartWorker
    <2>1. JobsTypeOK'
      BY <1>3, <1>0, RecoverTypes DEF StartWorker, Fault
    <2>2. worker' \in WorkerState /\ worker'.pc = "idle"
      BY <1>3, RestingFields DEF StartWorker
    <2>3. faults' \in Nat /\ UNCHANGED <<crashes, asked, starts>>
      BY <1>3 DEF StartWorker, Fault
    <2> QED BY <2>1, <2>2, <2>3
  <1>4. CASE RecoverStale
    BY <1>4, RecoverTypes DEF RecoverStale
  <1>5. CASE Dequeue
    <2>1. PICK j \in JobIds :
             /\ dequeue_next_job(j, ImportTypes)
             /\ worker' = [pc |-> "claimed", job |-> j,
                           attempts |-> jobs[j].attempts + 1,
                           doomed |-> j \in asked, outcome |-> "none"]
      BY <1>5 DEF Dequeue
    <2>2. jobs[j].attempts + 1 \in Nat /\ j \in Nat
      BY LimitType, JobStoreAssumption DEF JobRow
    <2>3. worker' \in WorkerState /\ worker'.job = j
      BY <2>1, <2>2 DEF WorkerState, Positions, Outcomes
    <2> QED BY <2>1, <2>3, <1>5, UpdateTypes DEF Dequeue
  <1>6. CASE NoExecutor
    BY <1>6, <1>0, UpdateTypes, RestingFields DEF NoExecutor, Fault
  <1>7. CASE EarlyCheck
    BY <1>7, <1>0, GotoFields DEF EarlyCheck, Fault, Positions
  <1>8. CASE Drop
    BY <1>8, <1>0, UpdateTypes, RestingFields DEF Drop, Fault
  <1>9. CASE StartExecutor
    BY <1>9, UpdateTypes, GotoFields DEF StartExecutor, Positions
  <1>10. CASE ExecutorReturns \/ ExecutorCancelled
    BY <1>10, <1>0, FinishingFields
    DEF ExecutorReturns, ExecutorCancelled, Outcomes
  <1>11. CASE ExecutorRaises
    BY <1>11, <1>0, GotoFields DEF ExecutorRaises, Positions
  <1>12. CASE Classify
    BY <1>12, <1>0, GotoFields, FinishingFields
    DEF Classify, Fault, Positions, Outcomes
  <1>13. CASE Retry
    BY <1>13, <1>0, UpdateTypes, RestingFields, FinishingFields
    DEF Retry, Fault, Outcomes
  <1>14. CASE Finish
    BY <1>14, <1>0, UpdateTypes, RestingFields DEF Finish, Fault
  <1>15. CASE Heartbeat
    BY <1>15, UpdateTypes DEF Heartbeat
  <1>16. CASE Crash
    BY <1>16, <1>0, RestingFields DEF Crash
  <1>17. CASE TimePasses
    BY <1>17, UpdateTypes DEF TimePasses
  <1>18. CASE UNCHANGED vars
    BY <1>18 DEF vars, JobsTypeOK
  <1> QED
    BY <1>1, <1>2, <1>3, <1>4, <1>5, <1>6, <1>7, <1>8, <1>9, <1>10, <1>11,
       <1>12, <1>13, <1>14, <1>15, <1>16, <1>17, <1>18 DEF Next, WorkerStep

\* Type correctness: rows, the worker's copy and the ghost counters keep their
\* shape through every handler, worker step, recovery and crash.
THEOREM TypeCorrect == Spec => []TypeOK
  <1>1. Init => TypeOK
    BY NewRowTypes, RestingFields DEF Init, TypeOK, JobsInit, JobsTypeOK
  <1> QED BY <1>1, TypeStep, PTL DEF Spec

-----------------------------------------------------------------------------
(* What each transaction does to the columns the invariant speaks of *)

\* Row i keeps its key, state, attempts and cancel flag.
Same(i) == /\ jobs'[i].key = jobs[i].key
           /\ jobs'[i].state = jobs[i].state
           /\ jobs'[i].attempts = jobs[i].attempts
           /\ jobs'[i].cancel = jobs[i].cancel

\* Row i may change state, but stays the same job with the same accounting.
Moves(i, s) == /\ jobs'[i].key = jobs[i].key
               /\ jobs'[i].state = s
               /\ jobs'[i].attempts = jobs[i].attempts
               /\ jobs'[i].cancel = jobs[i].cancel

LEMMA ClaimEffect ==
    ASSUME JobsTypeOK, NEW j \in JobIds, dequeue_next_job(j, ImportTypes)
    PROVE  /\ jobs[j].state = "queued"
           /\ jobs'[j].state = "running"
           /\ jobs'[j].key = jobs[j].key
           /\ jobs'[j].attempts = jobs[j].attempts + 1
           /\ jobs'[j].cancel = jobs[j].cancel
           /\ \A i \in JobIds \ {j} : Same(i)
  BY DEF dequeue_next_job, Eligible, ClaimedRow, JobsTypeOK, JobRow, Same

LEMMA MarkEffect ==
    ASSUME JobsTypeOK, NEW j \in JobIds, NEW s, MarkJob(j, s)
    PROVE  Moves(j, s) /\ \A i \in JobIds \ {j} : Same(i)
  BY DEF MarkJob, MarkedRow, JobsTypeOK, JobRow, Same, Moves

LEMMA HeartbeatEffect ==
    ASSUME JobsTypeOK, NEW j \in JobIds, heartbeat_job(j)
    PROVE  \A i \in JobIds : Same(i)
  BY DEF heartbeat_job, JobsTypeOK, JobRow, Same

LEMMA ClockEffect ==
    ASSUME JobsTypeOK, NEW j \in JobIds, LeaseRunsOut(j) \/ BecomesDue(j)
    PROVE  \A i \in JobIds : Same(i)
  BY DEF LeaseRunsOut, BecomesDue, JobsTypeOK, JobRow, Same

LEMMA RetryEffect ==
    ASSUME JobsTypeOK, NEW j \in JobIds, schedule_job_retry(j)
    PROVE  /\ CanRetry(j)
           /\ Moves(j, "queued")
           /\ \A i \in JobIds \ {j} : Same(i)
  BY DEF schedule_job_retry, CanRetry, RetryRow, JobsTypeOK, JobRow, Same, Moves

LEMMA CancelEffect ==
    ASSUME JobsTypeOK, NEW j \in JobIds, request_job_cancel(j)
    PROVE  /\ IsActive(j)
           /\ jobs'[j].cancel
           /\ jobs'[j].key = jobs[j].key
           /\ jobs'[j].attempts = jobs[j].attempts
           /\ jobs'[j].state = IF jobs[j].state = "running" THEN "cancelling"
                               ELSE jobs[j].state
           /\ \A i \in JobIds \ {j} : Same(i)
  BY DEF request_job_cancel, CancelRow, JobsTypeOK, JobRow, Same

LEMMA RecoverEffect ==
    ASSUME JobsTypeOK, NEW S \in SUBSET Running, recover_stale_running_jobs(S)
    PROVE  /\ \A i \in S : /\ jobs[i].state = "running"
                           /\ Moves(i, IF jobs[i].attempts >= MaxOf(i)
                                       THEN "failed" ELSE "queued")
           /\ \A i \in JobIds \ S : Same(i)
  BY DEF recover_stale_running_jobs, RecoveredRow, MarkedRow, Running,
         JobsTypeOK, JobRow, Same, Moves

-----------------------------------------------------------------------------
(* The inductive invariant *)

\* Every step keeps the accounting, the uniqueness of active jobs per key and
\* the worker's ownership of the row it works on.
LEMMA IInvStep == IInv /\ [Next]_vars => IInv'
  <1> SUFFICES ASSUME IInv, [Next]_vars PROVE IInv'
    OBVIOUS
  <1>t. TypeOK' /\ TypeOK /\ JobsTypeOK /\ worker \in WorkerState
    BY TypeStep DEF IInv, TypeOK
  <1>n. \A j \in JobIds : /\ jobs[j].attempts \in Nat /\ starts[j] \in Nat
                          /\ MaxOf(j) \in Nat \ {0}
    BY <1>t, LimitType DEF TypeOK, JobRow
  <1> SUFFICES OneActivePerKey' /\ HeldJobIsMine' /\ Accounting'
    BY <1>t DEF IInv
  <1>0. OneActivePerKey /\ HeldJobIsMine /\ Accounting
    BY DEF IInv
  <1>j. worker.pc \notin {"down", "idle"} => worker.job \in JobIds
    BY <1>t DEF TypeOK
  <1> USE DEF OneActivePerKey, HeldJobIsMine, Accounting, BudgetOf, WorkerCopy, Holding,
          IsActive, ActiveJobStates, MaxOf, Same, Moves
  <1>1. ASSUME NEW k \in Keys, Enqueue(k)
        PROVE  OneActivePerKey' /\ HeldJobIsMine' /\ Accounting'
    <2>1. PICK j \in JobIds : enqueue_job(k, j)
      BY <1>1 DEF Enqueue
    <2>2. CASE UNCHANGED jobs
      BY <1>1, <2>2, <1>0 DEF Enqueue
    <2>3. CASE /\ find_active_job_by_dedupe(k) = {}
               /\ IsNextId(j)
               /\ jobs' = [jobs EXCEPT ![j] = InsertedRow(k)]
      <3>1. /\ jobs[j].state = "absent"
            /\ jobs'[j] = InsertedRow(k)
            /\ \A i \in JobIds \ {j} : jobs'[i] = jobs[i]
        BY <2>3, <1>t DEF IsNextId, JobsTypeOK
      <3>2. OneActivePerKey'
        BY <3>1, <2>3, <1>0 DEF InsertedRow, find_active_job_by_dedupe
      <3>3. HeldJobIsMine' /\ WorkerCopy'
        BY <3>1, <1>0, <1>1 DEF Enqueue
      <3>4. \A i \in JobIds : (jobs[i].cancel <=> i \in asked)'
        BY <3>1, <1>0, <1>1 DEF Enqueue, InsertedRow
      <3>5. \A i \in JobIds : BudgetOf(i)'
        <4>1. BudgetOf(j)'
          BY <3>1, <1>0, <1>1, <1>n, JobStoreAssumption DEF Enqueue, InsertedRow
        <4>2. \A i \in JobIds \ {j} : BudgetOf(i)'
          BY <3>1, <1>0, <1>1 DEF Enqueue
        <4> QED BY <4>1, <4>2
      <3> QED BY <3>2, <3>3, <3>4, <3>5
    <2> QED BY <2>1, <2>2, <2>3 DEF enqueue_job
  <1>2. ASSUME NEW j \in JobIds, RequestCancel(j)
        PROVE  OneActivePerKey' /\ HeldJobIsMine' /\ Accounting'
    <2>1. request_job_cancel(j) /\ asked' = asked \cup {j}
          /\ UNCHANGED <<worker, starts>>
      BY <1>2 DEF RequestCancel
    <2>2. OneActivePerKey' /\ HeldJobIsMine'
      BY <2>1, <1>0, <1>t, CancelEffect
    <2>3. \A i \in JobIds : BudgetOf(i)'
      BY <2>1, <1>0, <1>t, <1>n, CancelEffect
    <2>4. \A i \in JobIds : (jobs[i].cancel <=> i \in asked)'
      BY <2>1, <1>0, <1>t, CancelEffect
    <2>5. WorkerCopy'
      BY <2>1, <1>0
    <2> QED BY <2>2, <2>3, <2>4, <2>5
  <1>r. ASSUME NEW S \in SUBSET Running, recover_stale_running_jobs(S),
               worker.pc \in {"down", "idle"}, worker'.pc \in {"down", "idle"},
               UNCHANGED <<asked, starts>>
        PROVE  OneActivePerKey' /\ HeldJobIsMine' /\ Accounting'
    <2>1. OneActivePerKey'
      BY <1>r, <1>0, <1>t, RecoverEffect
    <2>2. HeldJobIsMine' /\ WorkerCopy'
      BY <1>r
    <2>3. \A i \in JobIds : BudgetOf(i)'
      BY <1>r, <1>0, <1>t, <1>n, RecoverEffect
    <2>4. \A i \in JobIds : (jobs[i].cancel <=> i \in asked)'
      BY <1>r, <1>0, <1>t, RecoverEffect
    <2> QED BY <2>1, <2>2, <2>3, <2>4
  <1>e. ASSUME UNCHANGED <<jobs, asked, starts>>, worker'.pc \in {"down", "idle"}
        PROVE  OneActivePerKey' /\ HeldJobIsMine' /\ Accounting'
    BY <1>e, <1>0
  <1>m. ASSUME NEW s \in TerminalJobStates, MarkJob(worker.job, s),
               worker.pc \notin {"down", "idle"}, worker'.pc = "idle",
               UNCHANGED <<asked, starts>>
        PROVE  OneActivePerKey' /\ HeldJobIsMine' /\ Accounting'
    <2> USE DEF TerminalJobStates
    <2>1. OneActivePerKey'
      BY <1>m, <1>0, <1>t, <1>j, MarkEffect
    <2>2. HeldJobIsMine' /\ WorkerCopy'
      BY <1>m
    <2>3. \A i \in JobIds : BudgetOf(i)'
      BY <1>m, <1>0, <1>t, <1>n, <1>j, MarkEffect
    <2>4. \A i \in JobIds : (jobs[i].cancel <=> i \in asked)'
      BY <1>m, <1>0, <1>t, <1>j, MarkEffect
    <2> QED BY <2>1, <2>2, <2>3, <2>4
  <1>s. ASSUME \A i \in JobIds : Same(i), UNCHANGED <<worker, asked, starts>>
        PROVE  OneActivePerKey' /\ HeldJobIsMine' /\ Accounting'
    BY <1>s, <1>0
  <1>w. ASSUME UNCHANGED <<jobs, asked, starts>>,
               worker.pc \notin {"down", "idle"}, worker'.pc \notin {"down", "idle"},
               worker'.job = worker.job, worker'.doomed = worker.doomed,
               worker'.pc \in {"claimed", "dropping", "starting"}
                  => worker.pc \in {"claimed", "dropping", "starting"},
               worker'.pc = "dropping" => worker.job \in asked,
               worker'.pc = "finishing" => worker'.outcome # "none",
               worker'.outcome = "cancelled" => worker.job \in asked
        PROVE  OneActivePerKey' /\ HeldJobIsMine' /\ Accounting'
    <2>1. OneActivePerKey' /\ HeldJobIsMine'
      BY <1>w, <1>0
    <2>2. \A i \in JobIds : BudgetOf(i)'
      BY <1>w, <1>0
    <2>3. WorkerCopy'
      BY <1>w, <1>0
    <2> QED BY <2>1, <2>2, <2>3, <1>w, <1>0
  <1>3. CASE StartWorker
    <2>1. CASE recover_stale_running_jobs(Running)
      BY <1>3, <2>1, <1>r, RestingFields DEF StartWorker
    <2>2. CASE Fault
      BY <1>3, <2>2, <1>e, RestingFields DEF StartWorker, Fault
    <2> QED BY <1>3, <2>1, <2>2 DEF StartWorker
  <1>4. CASE RecoverStale
    BY <1>4, <1>r DEF RecoverStale, Expired
  <1>5. CASE Dequeue
    <2>1. PICK j \in JobIds :
             /\ dequeue_next_job(j, ImportTypes)
             /\ worker' = [pc |-> "claimed", job |-> j,
                           attempts |-> jobs[j].attempts + 1,
                           doomed |-> j \in asked, outcome |-> "none"]
      BY <1>5 DEF Dequeue
    <2>2. /\ worker'.pc = "claimed" /\ worker'.job = j
          /\ worker'.doomed = (j \in asked) /\ worker'.outcome = "none"
          /\ UNCHANGED <<asked, starts>>
      BY <2>1, <1>5 DEF Dequeue
    <2>3. OneActivePerKey' /\ HeldJobIsMine'
      BY <2>1, <2>2, <1>0, <1>t, ClaimEffect
    <2>4. \A i \in JobIds : BudgetOf(i)'
      BY <2>1, <2>2, <1>0, <1>t, <1>n, <1>5, ClaimEffect DEF Dequeue
    <2>5. \A i \in JobIds : (jobs[i].cancel <=> i \in asked)'
      BY <2>1, <2>2, <1>0, <1>t, ClaimEffect
    <2>6. WorkerCopy'
      BY <2>2
    <2> QED BY <2>3, <2>4, <2>5, <2>6
  <1>6. CASE NoExecutor
    BY <1>6, <1>m, <1>e, RestingFields
    DEF NoExecutor, Fault, mark_job_failed, TerminalJobStates
  <1>7. CASE EarlyCheck
    <2>1. /\ worker.pc = "claimed" /\ UNCHANGED <<jobs, asked, starts>>
          /\ \/ Goto("dropping") /\ is_job_cancel_requested(worker.job)
             \/ Goto("starting")
      BY <1>7 DEF EarlyCheck, Fault
    <2>2. worker.outcome = "cancelled" => worker.job \in asked
      BY <2>1, <1>0
    <2> QED BY <2>1, <2>2, <1>0, <1>t, <1>j, <1>w, GotoFields
            DEF Positions, is_job_cancel_requested
  <1>8. CASE Drop
    BY <1>8, <1>m, <1>e, RestingFields
    DEF Drop, Fault, mark_job_cancelled, TerminalJobStates
  <1>9. CASE StartExecutor
    <2>1. /\ worker.pc = "starting" /\ worker.job \in JobIds
          /\ \A i \in JobIds : Same(i)
          /\ worker' \in WorkerState /\ worker'.pc = "executing"
          /\ worker'.job = worker.job /\ worker'.doomed = worker.doomed
          /\ worker'.outcome = worker.outcome
          /\ asked' = asked
          /\ starts' = [starts EXCEPT ![worker.job] = starts[worker.job] + 1]
      BY <1>9, <1>t, <1>j, GotoFields, HeartbeatEffect
      DEF StartExecutor, Positions
    <2>2. OneActivePerKey' /\ HeldJobIsMine'
      BY <2>1, <1>0
    <2>3. \A i \in JobIds : BudgetOf(i)'
      <3>1. PICK w \in JobIds : w = worker.job
        BY <2>1
      <3>2. BudgetOf(w)'
        BY <2>1, <3>1, <1>0, <1>n, <1>t DEF TypeOK
      <3>3. \A i \in JobIds \ {w} : BudgetOf(i)'
        BY <2>1, <3>1, <1>0, <1>t DEF TypeOK
      <3> QED BY <3>2, <3>3
    <2>4. WorkerCopy' /\ \A i \in JobIds : (jobs[i].cancel <=> i \in asked)'
      BY <2>1, <1>0
    <2> QED BY <2>2, <2>3, <2>4
  <1>10. CASE ExecutorReturns
    BY <1>10, <1>0, <1>t, <1>w, FinishingFields DEF ExecutorReturns, Outcomes
  <1>11. CASE ExecutorCancelled
    BY <1>11, <1>0, <1>t, <1>j, <1>w, FinishingFields
    DEF ExecutorCancelled, is_job_cancel_requested, Outcomes
  <1>12. CASE ExecutorRaises
    BY <1>12, <1>0, <1>t, <1>w, GotoFields DEF ExecutorRaises, Positions
  <1>13. CASE Classify
    <2>1. /\ worker.pc = "raised" /\ UNCHANGED <<jobs, asked, starts>>
          /\ Finishing("failed") \/ Goto("retrying")
      BY <1>13 DEF Classify, Fault
    <2> QED BY <2>1, <1>0, <1>t, <1>w, GotoFields, FinishingFields
            DEF Positions, Outcomes
  <1>14. CASE Retry
    <2>1. CASE schedule_job_retry(worker.job) /\ worker' = Resting("idle")
      <3>1. /\ worker.job \in JobIds /\ CanRetry(worker.job)
            /\ Moves(worker.job, "queued")
            /\ \A i \in JobIds \ {worker.job} : Same(i)
            /\ worker'.pc = "idle"
            /\ UNCHANGED <<asked, starts>>
        BY <2>1, <1>14, <1>t, <1>j, RetryEffect, RestingFields DEF Retry
      <3>2. OneActivePerKey' /\ HeldJobIsMine' /\ WorkerCopy'
        BY <3>1, <1>0 DEF CanRetry
      <3>3. \A i \in JobIds : BudgetOf(i)'
        BY <3>1, <1>0, <1>n DEF CanRetry
      <3>4. \A i \in JobIds : (jobs[i].cancel <=> i \in asked)'
        BY <3>1, <1>0
      <3> QED BY <3>2, <3>3, <3>4
    <2>2. CASE UNCHANGED <<jobs, asked, starts>> /\ Finishing("failed")
      BY <2>2, <1>14, <1>0, <1>t, <1>w, FinishingFields DEF Retry, Outcomes
    <2> QED BY <2>1, <2>2, <1>14 DEF Retry, Fault
  <1>15. CASE Finish
    BY <1>15, <1>m, <1>e, RestingFields
    DEF Finish, Fault, mark_job_completed, mark_job_failed, mark_job_cancelled,
        TerminalJobStates
  <1>16. CASE Heartbeat
    BY <1>16, <1>s, <1>t, <1>j, HeartbeatEffect DEF Heartbeat
  <1>17. CASE Crash
    BY <1>17, <1>e, RestingFields DEF Crash
  <1>18. CASE TimePasses
    BY <1>18, <1>s, <1>t, ClockEffect DEF TimePasses
  <1>19. CASE UNCHANGED vars
    BY <1>19, <1>0 DEF vars
  <1> QED
    BY <1>1, <1>2, <1>3, <1>4, <1>5, <1>6, <1>7, <1>8, <1>9, <1>10, <1>11,
       <1>12, <1>13, <1>14, <1>15, <1>16, <1>17, <1>18, <1>19
    DEF Next, WorkerStep

\* The table starts empty and the worker down.
LEMMA InductiveInit == Init => IInv
  <1> SUFFICES ASSUME Init PROVE IInv
    OBVIOUS
  <1>1. TypeOK
    BY NewRowTypes, RestingFields DEF Init, TypeOK, JobsInit, JobsTypeOK
  <1>2. \A j \in JobIds : /\ jobs[j].state = "absent" /\ jobs[j].attempts = 0
                          /\ ~jobs[j].cancel
    BY DEF Init, JobsInit, AbsentRow
  <1>3. OneActivePerKey
    BY <1>2 DEF OneActivePerKey, IsActive, ActiveJobStates
  <1>4. HeldJobIsMine /\ WorkerCopy
    BY RestingFields DEF Init, HeldJobIsMine, WorkerCopy, Holding
  <1>5. \A j \in JobIds : BudgetOf(j)
    <2>1. \A j \in JobIds : MaxOf(j) \in Nat \ {0} /\ starts[j] = 0
      BY <1>1, LimitType DEF Init, TypeOK
    <2>2. worker.pc = "down"
      BY RestingFields DEF Init
    <2> TAKE j \in JobIds
    <2>3. jobs[j].attempts <= MaxOf(j) /\ jobs[j].attempts < MaxOf(j)
          /\ starts[j] <= jobs[j].attempts
      BY <1>2, <2>1
    <2> QED BY <1>2, <2>2, <2>3 DEF BudgetOf, Holding
  <1> QED BY <1>1, <1>2, <1>3, <1>4, <1>5 DEF Init, IInv, Accounting

\* The queue's invariants: one active job per dedupe key, the worker's
\* ownership of the row it works on, and the accounting that makes them
\* inductive.
THEOREM InductiveInvariant == Spec => []IInv
  BY InductiveInit, IInvStep, PTL DEF Spec

-----------------------------------------------------------------------------
(* Consequences *)

\* enqueue_job's dedupe check is enough: no interleaving of retries, recoveries
\* and late outcome writes ever yields two active jobs under one key.
THEOREM UniqueActiveJob == Spec => []OneActivePerKey
  BY InductiveInvariant, PTL DEF IInv

\* No outcome is ever written to a row the worker has lost.
THEOREM WorkerOwnsItsRow == Spec => []HeldJobIsMine
  BY InductiveInvariant, PTL DEF IInv

\* Executors are invoked at most max_attempts times, through any number of
\* crashes, expired leases and lost writes.
THEOREM AttemptsAreBounded == Spec => []AttemptBudget
  <1>1. IInv => AttemptBudget
    <2> SUFFICES ASSUME IInv, NEW j \in JobIds PROVE starts[j] <= MaxOf(j)
      BY DEF AttemptBudget
    <2>1. /\ starts[j] \in Nat /\ jobs[j].attempts \in Nat
          /\ MaxOf(j) \in Nat \ {0}
      BY LimitType DEF IInv, TypeOK, JobRow
    <2>2. starts[j] <= jobs[j].attempts /\ jobs[j].attempts <= MaxOf(j)
      BY DEF IInv, Accounting, BudgetOf
    <2> QED BY <2>1, <2>2
  <1> QED BY <1>1, InductiveInvariant, PTL

\* The retry UPDATE's cancel_requested = 0 never erases an accepted request.
THEOREM CancelIsKept == Spec => []CancelNotForgotten
  <1>1. IInv => CancelNotForgotten
    BY DEF IInv, Accounting, CancelNotForgotten, TypeOK
  <1> QED BY <1>1, InductiveInvariant, PTL

\* While the database answers, a job cancelled before it is claimed never
\* reaches its executor.
THEOREM CancelBeforeClaim == Spec => []DoomedNeverStarts
  <1> DEFINE Inv == IInv /\ DoomedNeverStarts
  <1>1. Init => Inv
    <2>1. Init => IInv
      BY InductiveInit
    <2> QED BY <2>1, RestingFields DEF Init, DoomedNeverStarts
  <1>2. Inv /\ [Next]_vars => Inv'
    <2> SUFFICES ASSUME Inv, [Next]_vars, faults' = 0 PROVE DoomedNeverStarts'
      BY IInvStep DEF DoomedNeverStarts
    <2>n. faults \in Nat
      BY DEF IInv, TypeOK
    <2>0. ~Fault
      BY <2>n DEF Fault
    <2>f. faults = 0
      <3>1. UNCHANGED faults \/ Fault
        BY DEF Next, vars, WorkerStep, Enqueue, RequestCancel, StartWorker, RecoverStale,
               Dequeue, NoExecutor, EarlyCheck, Drop, StartExecutor, Heartbeat,
               ExecutorReturns, ExecutorCancelled, ExecutorRaises, Classify, Retry,
               Finish, Crash, TimePasses
      <3> QED BY <3>1, <2>0
    <2>t. /\ worker \in WorkerState
          /\ worker.pc \notin {"down", "idle"} => worker.job \in JobIds
          /\ \A j \in JobIds : jobs[j].cancel <=> j \in asked
          /\ worker.pc = "claimed" /\ worker.doomed => worker.job \in asked
      BY DEF IInv, TypeOK, Accounting, WorkerCopy
    <2>d. worker.pc \in {"starting", "executing"} => ~worker.doomed
      BY <2>f DEF DoomedNeverStarts
    <2> USE <2>d DEF DoomedNeverStarts
    <2>1. CASE \/ \E k \in Keys : Enqueue(k)
               \/ \E j \in JobIds : RequestCancel(j)
               \/ RecoverStale \/ Heartbeat \/ TimePasses
      BY <2>1 DEF Enqueue, RequestCancel, RecoverStale, Heartbeat, TimePasses
    <2>2. CASE StartWorker \/ NoExecutor \/ Drop \/ Finish \/ Crash
      BY <2>2, <2>0, RestingFields
      DEF StartWorker, NoExecutor, Drop, Finish, Crash
    <2>3. CASE Dequeue
      BY <2>3 DEF Dequeue
    <2>4. CASE EarlyCheck
      BY <2>4, <2>0, <2>t, GotoFields
      DEF EarlyCheck, is_job_cancel_requested, Positions
    <2>5. CASE StartExecutor
      BY <2>5, <2>t, GotoFields DEF StartExecutor, Positions
    <2>6. CASE ExecutorReturns \/ ExecutorCancelled
      BY <2>6, <2>t, FinishingFields
      DEF ExecutorReturns, ExecutorCancelled, Outcomes
    <2>7. CASE ExecutorRaises
      BY <2>7, <2>t, GotoFields DEF ExecutorRaises, Positions
    <2>8. CASE Classify
      BY <2>8, <2>0, <2>t, GotoFields, FinishingFields
      DEF Classify, Positions, Outcomes
    <2>9. CASE Retry
      BY <2>9, <2>0, <2>t, RestingFields, FinishingFields DEF Retry, Outcomes
    <2>10. CASE UNCHANGED vars
      BY <2>10 DEF vars
    <2> QED BY <2>1, <2>2, <2>3, <2>4, <2>5, <2>6, <2>7, <2>8, <2>9, <2>10
            DEF Next, WorkerStep
  <1> QED BY <1>1, <1>2, PTL DEF Spec

\* The two together: no retry, recovery, crash or late write takes back an
\* accepted cancellation, and no claim made after it overlooks it.
THEOREM CancellationHolds == Spec => []CancelHolds
  BY CancelIsKept, CancelBeforeClaim, PTL DEF CancelHolds

-----------------------------------------------------------------------------
(* Refinement *)

\* The status a row shows to the contract.
LEMMA StatusFacts ==
    /\ StatusOf("absent") = "none"
    /\ StatusOf("queued") = "waiting"
    /\ StatusOf("running") = "owned"
    /\ StatusOf("cancelling") = "owned"
    /\ StatusOf("completed") = "completed"
    /\ StatusOf("failed") = "failed"
    /\ StatusOf("cancelled") = "cancelled"
  BY DEF StatusOf

\* A row that keeps its columns rests; so does one that is asked to cancel.
LEMMA RestStep ==
    ASSUME NEW i \in JobIds,
           jobs'[i].key = jobs[i].key, jobs'[i].attempts = jobs[i].attempts,
           StatusOf(jobs'[i].state) = StatusOf(jobs[i].state)
    PROVE  Contract!Rest(i)
  BY DEF Contract!Rest, Contract!Stays

\* A running row that is written a verdict settles.
LEMMA SettleStep ==
    ASSUME NEW i \in JobIds, NEW s \in TerminalJobStates,
           jobs[i].state \in {"running", "cancelling"}, Moves(i, s),
           s = "cancelled" => i \in asked
    PROVE  Contract!Settle(i)
  BY StatusFacts
  DEF Contract!Settle, Contract!Stays, Contract!Verdicts, Moves, TerminalJobStates

\* A running row with attempts left that is requeued is handed back.
LEMMA HandBackStep ==
    ASSUME NEW i \in JobIds, JobsTypeOK,
           jobs[i].state \in {"running", "cancelling"}, Moves(i, "queued"),
           jobs[i].attempts < MaxOf(i)
    PROVE  Contract!HandBack(i)
  BY StatusFacts, LimitType
  DEF Contract!HandBack, Contract!Stays, Moves, MaxOf

\* Every step of the queue is a step of its contract.
LEMMA ContractStep == IInv /\ IInv' /\ [Next]_vars => Contract!CNext
  <1> SUFFICES ASSUME IInv, IInv', [Next]_vars PROVE Contract!CNext
    OBVIOUS
  <1> DEFINE JobSteps == \A i \in JobIds : \/ Contract!Submit(i) \/ Contract!Take(i)
                                           \/ Contract!HandBack(i)
                                           \/ Contract!Settle(i) \/ Contract!Rest(i)
             Asks == /\ asked \subseteq asked'
                     /\ \A j \in asked' \ asked : IsActive(j)
  <1>t. /\ JobsTypeOK /\ worker \in WorkerState /\ asked \subseteq JobIds
        /\ asked' \subseteq JobIds
        /\ worker.pc \notin {"down", "idle"} => worker.job \in JobIds
    BY DEF IInv, TypeOK
  <1>h. worker.pc \notin {"down", "idle"} =>
          jobs[worker.job].state \in {"running", "cancelling"}
    BY <1>t DEF IInv, HeldJobIsMine, Holding
  <1>n. \A i \in JobIds : jobs[i].attempts \in Nat /\ MaxOf(i) \in Nat
    BY <1>t, LimitType DEF JobRow
  <1>o. \A i \in JobIds :
          StatusOf(jobs[i].state) \in {"waiting", "owned"} <=> IsActive(i)
    BY <1>t, StatusFacts, LimitType
    DEF IsActive, JobRow, ActiveJobStates, TerminalJobStates
  <1>p. \A i \in JobIds :
          StatusOf(jobs'[i].state) \in {"waiting", "owned"} => IsActive(i)'
    <2>1. \A i \in JobIds : jobs'[i] \in JobRow
      BY DEF IInv, TypeOK, JobsTypeOK
    <2> QED BY <2>1, StatusFacts
            DEF IsActive, JobRow, ActiveJobStates, TerminalJobStates
  <1>u. Contract!OneOpenPerKey'
    BY <1>p DEF Contract!OneOpenPerKey, Contract!Open, IInv, OneActivePerKey
  <1> SUFFICES JobSteps /\ Asks
    BY <1>u, <1>o, <1>t DEF Contract!CNext, Contract!Open
  <1>s. ASSUME \A i \in JobIds : Same(i) PROVE JobSteps
    BY <1>s, RestStep DEF Same
  <1>q. ASSUME UNCHANGED jobs PROVE JobSteps
    BY <1>q, <1>s DEF Same
  <1>m. ASSUME NEW s \in TerminalJobStates, MarkJob(worker.job, s),
               worker.pc \notin {"down", "idle"},
               s = "cancelled" => worker.job \in asked
        PROVE  JobSteps
    <2> PICK w \in JobIds : w = worker.job
      BY <1>m, <1>t
    <2>0. Moves(w, s) /\ \A i \in JobIds \ {w} : Same(i)
      BY <1>m, <1>t, MarkEffect
    <2>1. Contract!Settle(w)
      BY <2>0, <1>m, <1>h, SettleStep
    <2>2. \A i \in JobIds \ {w} : Contract!Rest(i)
      BY <2>0, RestStep DEF Same
    <2> QED BY <2>1, <2>2
  <1>r. ASSUME NEW S \in SUBSET Running, recover_stale_running_jobs(S)
        PROVE  JobSteps
    <2>1. ASSUME NEW i \in S PROVE Contract!HandBack(i) \/ Contract!Settle(i)
      <3>1. /\ i \in JobIds /\ jobs[i].state = "running"
            /\ Moves(i, IF jobs[i].attempts >= MaxOf(i) THEN "failed" ELSE "queued")
        BY <1>r, <1>t, RecoverEffect DEF Running
      <3>2. CASE jobs[i].attempts >= MaxOf(i)
        BY <3>1, <3>2, SettleStep DEF TerminalJobStates
      <3>3. CASE jobs[i].attempts < MaxOf(i)
        BY <3>1, <3>3, <1>t, <1>n, HandBackStep
      <3> QED BY <3>1, <3>2, <3>3, <1>n
    <2>2. \A i \in JobIds \ S : Contract!Rest(i)
      BY <1>r, <1>t, RecoverEffect, RestStep DEF Same
    <2> QED BY <2>1, <2>2
  <1>1. ASSUME NEW k \in Keys, Enqueue(k) PROVE JobSteps /\ Asks
    <2>1. PICK j \in JobIds : enqueue_job(k, j)
      BY <1>1 DEF Enqueue
    <2>2. CASE UNCHANGED jobs
      BY <1>1, <1>q, <2>2 DEF Enqueue
    <2>3. CASE IsNextId(j) /\ jobs' = [jobs EXCEPT ![j] = InsertedRow(k)]
      <3>1. Contract!Submit(j)
        BY <2>3, <1>t, StatusFacts
        DEF Contract!Submit, IsNextId, InsertedRow, JobsTypeOK
      <3>2. \A i \in JobIds \ {j} : Same(i)
        BY <2>3, <1>t DEF Same, JobsTypeOK
      <3> QED BY <3>1, <3>2, <1>1, RestStep DEF Enqueue, Same
    <2> QED BY <2>1, <2>2, <2>3 DEF enqueue_job
  <1>2. ASSUME NEW j \in JobIds, RequestCancel(j) PROVE JobSteps /\ Asks
    <2>1. \A i \in JobIds : /\ jobs'[i].key = jobs[i].key
                            /\ jobs'[i].attempts = jobs[i].attempts
                            /\ StatusOf(jobs'[i].state) = StatusOf(jobs[i].state)
      BY <1>2, <1>t, CancelEffect, StatusFacts DEF RequestCancel, Same
    <2>2. Asks
      BY <1>2, <1>t, CancelEffect DEF RequestCancel
    <2> QED BY <2>1, <2>2, RestStep
  <1>3. CASE StartWorker
    BY <1>3, <1>r, <1>q DEF StartWorker, Fault
  <1>4. CASE RecoverStale
    BY <1>4, <1>r DEF RecoverStale, Expired
  <1>5. CASE Dequeue
    <2>1. PICK j \in JobIds : dequeue_next_job(j, ImportTypes)
      BY <1>5 DEF Dequeue
    <2>2. Contract!Take(j)
      <3>1. jobs[j].attempts + 1 <= MaxOf(j)
        BY <2>1, <1>t, <1>n, ClaimEffect DEF IInv, Accounting, BudgetOf
      <3>2. MaxOf(j) = [k \in Keys |-> MaxAttempts[TypeOf[k]]][jobs[j].key]
        BY <1>t, LimitType DEF MaxOf
      <3> QED BY <2>1, <3>1, <3>2, <1>t, ClaimEffect, StatusFacts
              DEF Contract!Take
    <2>3. \A i \in JobIds \ {j} : Contract!Rest(i)
      BY <2>1, <1>t, ClaimEffect, RestStep DEF Same
    <2> QED BY <2>2, <2>3, <1>5 DEF Dequeue
  <1>6. CASE NoExecutor
    BY <1>6, <1>m, <1>q DEF NoExecutor, Fault, mark_job_failed, TerminalJobStates
  <1>7. CASE EarlyCheck
    BY <1>7, <1>q DEF EarlyCheck, Fault
  <1>8. CASE Drop
    <2>1. worker.job \in asked
      BY <1>8 DEF Drop, IInv, Accounting, WorkerCopy
    <2> QED BY <1>8, <2>1, <1>m, <1>q
            DEF Drop, Fault, mark_job_cancelled, TerminalJobStates
  <1>9. CASE StartExecutor \/ Heartbeat
    BY <1>9, <1>s, <1>t, HeartbeatEffect DEF StartExecutor, Heartbeat
  <1>10. CASE ExecutorReturns \/ ExecutorCancelled \/ ExecutorRaises \/ Crash
    BY <1>10, <1>q
    DEF ExecutorReturns, ExecutorCancelled, ExecutorRaises, Crash
  <1>11. CASE Classify
    BY <1>11, <1>q DEF Classify, Fault
  <1>12. CASE Retry
    <2>1. CASE schedule_job_retry(worker.job)
      <3> PICK w \in JobIds : w = worker.job
        BY <1>12, <1>t DEF Retry
      <3>1. CanRetry(w) /\ Moves(w, "queued") /\ \A i \in JobIds \ {w} : Same(i)
        BY <2>1, <1>t, RetryEffect
      <3>2. Contract!HandBack(w)
        BY <3>1, <1>t, HandBackStep DEF CanRetry
      <3>3. \A i \in JobIds \ {w} : Contract!Rest(i)
        BY <3>1, RestStep DEF Same
      <3> QED BY <3>2, <3>3, <1>12 DEF Retry
    <2>2. CASE UNCHANGED jobs
      BY <2>2, <1>12, <1>q DEF Retry
    <2> QED BY <2>1, <2>2, <1>12 DEF Retry, Fault
  <1>13. CASE Finish
    <2>1. worker.outcome = "cancelled" => worker.job \in asked
      BY <1>13 DEF Finish, IInv, Accounting, WorkerCopy
    <2> QED BY <1>13, <2>1, <1>m, <1>q
            DEF Finish, Fault, mark_job_completed, mark_job_failed,
                mark_job_cancelled, TerminalJobStates
  <1>14. CASE TimePasses
    BY <1>14, <1>s, <1>t, ClockEffect DEF TimePasses
  <1>15. CASE UNCHANGED vars
    BY <1>15, <1>q DEF vars
  <1> QED
    BY <1>1, <1>2, <1>3, <1>4, <1>5, <1>6, <1>7, <1>8, <1>9, <1>10, <1>11,
       <1>12, <1>13, <1>14, <1>15 DEF Next, WorkerStep

\* The queue keeps its contract: verdicts are final, attempts are limited, keys
\* are exclusive, and only what was asked for is cancelled.
THEOREM QueueKeepsContract == Spec => ImplementsContract
  <1>1. Init => Contract!CInit
    BY StatusFacts DEF Init, JobsInit, AbsentRow, Contract!CInit
  <1> QED BY <1>1, ContractStep, InductiveInvariant, PTL
          DEF Spec, ImplementsContract, Contract!CSpec
=============================================================================
