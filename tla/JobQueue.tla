------------------------------ MODULE JobQueue ------------------------------
(***************************************************************************)
(* The import queue: app/worker.py running over the jobs table.            *)
(*                                                                         *)
(* Three actors share the table.  HTTP handlers enqueue jobs and ask for   *)
(* their cancellation.  The single worker thread recovers expired leases,  *)
(* claims a job, runs its executor and writes the outcome; between two of  *)
(* its transactions any other actor may step.  Its heartbeat thread renews *)
(* the lease while an executor runs.  The process may crash at any point   *)
(* and is restarted; the worker's position is lost, the table is not.      *)
(*                                                                         *)
(* Every state_db function swallows database errors and reports "nothing   *)
(* done".  Where the caller then only polls again that is a stutter; where *)
(* it goes on regardless, the step is an alternative that spends one of    *)
(* MaxFaults.                                                              *)
(***************************************************************************)
EXTENDS JobStore

CONSTANTS
    Executors,   \* types an executor is registered for
    Retryable,   \* types listed in _RETRY_BACKOFF_SEC
    MaxCrashes,  \* bound on process crashes
    MaxFaults    \* bound on swallowed database errors

ASSUME JobQueueAssumption ==
    /\ Executors \subseteq Types
    /\ Retryable \subseteq Types
    /\ MaxCrashes \in Nat
    /\ MaxFaults \in Nat

VARIABLES
    worker,    \* the worker thread: its position and the job dict it holds
    crashes,   \* crashes so far
    faults,    \* swallowed database errors so far
    asked,     \* ghost: jobs whose cancellation request was accepted
    starts     \* ghost: how often each job's executor was invoked

vars == <<jobs, worker, crashes, faults, asked, starts>>

\* _worker_loop leaves library_scan jobs to their own worker.
ImportTypes == Types \ {"library_scan"}

\* Positions: "down" the process is not running; "idle" at the top of
\* _worker_loop; the others are points of _execute_job.
Positions == {"down", "idle", "claimed", "dropping", "starting", "executing",
              "raised", "retrying", "finishing"}

Outcomes == {"none", "completed", "failed", "cancelled"}

\* The worker with its job dict, a copy of the row taken by dequeue_next_job:
\* the attempts are read from the copy, not from the table.  `doomed' is ghost:
\* a cancellation of the job had been accepted when it was claimed.
WorkerState == [pc : Positions, job : Nat, attempts : Nat, doomed : BOOLEAN,
                outcome : Outcomes]

Resting(pc) == [pc |-> pc, job |-> 0, attempts |-> 0, doomed |-> FALSE,
                outcome |-> "none"]

Holding(j) == worker.pc \notin {"down", "idle"} /\ worker.job = j

Init ==
    /\ JobsInit
    /\ worker = Resting("down")
    /\ crashes = 0
    /\ faults = 0
    /\ asked = {}
    /\ starts = [j \in JobIds |-> 0]

\* A transaction that fails is rolled back and logged; its caller goes on.
Fault == /\ faults < MaxFaults
         /\ faults' = faults + 1
         /\ UNCHANGED jobs

Goto(pc) == worker' = [worker EXCEPT !.pc = pc]
Finishing(s) == worker' = [worker EXCEPT !.pc = "finishing", !.outcome = s]

-----------------------------------------------------------------------------
(* HTTP handlers; they live in the same process as the worker *)

\* addurl, ingest, promote and retry endpoints
Enqueue(k) ==
    /\ worker.pc # "down"
    /\ \E j \in JobIds : enqueue_job(k, j)
    /\ UNCHANGED <<worker, crashes, faults, asked, starts>>

\* the dashboard's cancel button and a SAB delete
RequestCancel(j) ==
    /\ worker.pc # "down"
    /\ request_job_cancel(j)
    /\ asked' = asked \cup {j}
    /\ UNCHANGED <<worker, crashes, faults, starts>>

-----------------------------------------------------------------------------
(* start_worker and _worker_loop *)

\* Boot recovery requeues or fails whatever a previous process left running.
StartWorker ==
    /\ worker.pc = "down"
    /\ worker' = Resting("idle")
    /\ \/ recover_stale_running_jobs(Running) /\ UNCHANGED faults
       \/ Fault
    /\ UNCHANGED <<crashes, asked, starts>>

\* Mutant: recovery on a timer of its own, beside a worker that may be busy.
RecoverAnytime ==
    /\ worker.pc # "down"
    /\ recover_stale_running_jobs(Expired)
    /\ UNCHANGED <<worker, crashes, faults, asked, starts>>

\* The periodic recovery at the top of the loop.
RecoverStale ==
    /\ worker.pc = "idle"
    /\ recover_stale_running_jobs(Expired)
    /\ UNCHANGED <<worker, crashes, faults, asked, starts>>

Dequeue ==
    /\ worker.pc = "idle"
    /\ \E j \in JobIds :
          /\ dequeue_next_job(j, ImportTypes)
          /\ worker' = [pc |-> "claimed", job |-> j,
                        attempts |-> jobs[j].attempts + 1,
                        doomed |-> j \in asked, outcome |-> "none"]
    /\ UNCHANGED <<crashes, faults, asked, starts>>

-----------------------------------------------------------------------------
(* _execute_job *)

JobType == TypeOf[jobs[worker.job].key]

\* No executor is registered for the type: config_error.
NoExecutor ==
    /\ worker.pc = "claimed"
    /\ JobType \notin Executors
    /\ worker' = Resting("idle")
    /\ \/ mark_job_failed(worker.job) /\ UNCHANGED faults
       \/ Fault
    /\ UNCHANGED <<crashes, asked, starts>>

\* The early cancel check.  A failed read counts as "not requested".
EarlyCheck ==
    /\ worker.pc = "claimed"
    /\ JobType \in Executors
    /\ \/ /\ is_job_cancel_requested(worker.job)
          /\ Goto("dropping")
          /\ UNCHANGED <<jobs, faults>>
       \/ /\ ~is_job_cancel_requested(worker.job)
          /\ Goto("starting")
          /\ UNCHANGED <<jobs, faults>>
       \/ /\ Fault
          /\ Goto("starting")
    /\ UNCHANGED <<crashes, asked, starts>>

\* Cancelled before the start.
Drop ==
    /\ worker.pc = "dropping"
    /\ worker' = Resting("idle")
    /\ \/ mark_job_cancelled(worker.job) /\ UNCHANGED faults
       \/ Fault
    /\ UNCHANGED <<crashes, asked, starts>>

\* First heartbeat, heartbeat thread started, executor invoked.
StartExecutor ==
    /\ worker.pc = "starting"
    /\ heartbeat_job(worker.job)
    /\ Goto("executing")
    /\ starts' = [starts EXCEPT ![worker.job] = @ + 1]
    /\ UNCHANGED <<crashes, faults, asked>>

\* The heartbeat thread, every 30 seconds until _execute_job's finally.
Heartbeat ==
    /\ worker.pc \in {"executing", "raised", "retrying", "finishing"}
    /\ heartbeat_job(worker.job)
    /\ UNCHANGED <<worker, crashes, faults, asked, starts>>

ExecutorReturns ==
    /\ worker.pc = "executing"
    /\ Finishing("completed")
    /\ UNCHANGED <<jobs, crashes, faults, asked, starts>>

\* A checkpoint sees cancel_requested and raises JobCancelled.
ExecutorCancelled ==
    /\ worker.pc = "executing"
    /\ is_job_cancel_requested(worker.job)
    /\ Finishing("cancelled")
    /\ UNCHANGED <<jobs, crashes, faults, asked, starts>>

\* Any other exception.  First the cancel flag is read (a failed read counts
\* as "not requested"), then the failure is classified: only a retryable type
\* with attempts left in its copy, and a transient message, goes on to retry.
ExecutorRaises ==
    /\ worker.pc = "executing"
    /\ Goto("raised")
    /\ UNCHANGED <<jobs, crashes, faults, asked, starts>>

\* _is_transient_failure; the message's markers are the environment's choice.
MayBeTransient == JobType \in Retryable /\ worker.attempts < MaxOf(worker.job)

Classify ==
    /\ worker.pc = "raised"
    /\ \/ is_job_cancel_requested(worker.job) /\ Finishing("failed")
             /\ UNCHANGED <<jobs, faults>>
       \/ /\ \/ ~is_job_cancel_requested(worker.job) /\ UNCHANGED <<jobs, faults>>
             \/ Fault
          /\ \/ MayBeTransient /\ Goto("retrying")
             \/ Finishing("failed")
    /\ UNCHANGED <<crashes, asked, starts>>

\* schedule_job_retry; when its UPDATE touches no row the job fails.
Retry ==
    /\ worker.pc = "retrying"
    /\ \/ /\ schedule_job_retry(worker.job)
          /\ worker' = Resting("idle")
          /\ UNCHANGED faults
       \/ /\ ~CanRetry(worker.job)
          /\ Finishing("failed")
          /\ UNCHANGED <<jobs, faults>>
       \/ /\ Fault
          /\ Finishing("failed")
    /\ UNCHANGED <<crashes, asked, starts>>

\* The terminal write and the return to the loop.
Finish ==
    /\ worker.pc = "finishing"
    /\ worker' = Resting("idle")
    /\ \/ /\ UNCHANGED faults
          /\ \/ worker.outcome = "completed" /\ mark_job_completed(worker.job)
             \/ worker.outcome = "failed" /\ mark_job_failed(worker.job)
             \/ worker.outcome = "cancelled" /\ mark_job_cancelled(worker.job)
       \/ Fault
    /\ UNCHANGED <<crashes, asked, starts>>

-----------------------------------------------------------------------------
(* The environment *)

Crash ==
    /\ worker.pc # "down"
    /\ crashes < MaxCrashes
    /\ crashes' = crashes + 1
    /\ worker' = Resting("down")
    /\ UNCHANGED <<jobs, faults, asked, starts>>

TimePasses ==
    /\ \E j \in JobIds : LeaseRunsOut(j) \/ BecomesDue(j)
    /\ UNCHANGED <<worker, crashes, faults, asked, starts>>

-----------------------------------------------------------------------------
WorkerStep ==
    \/ StartWorker \/ RecoverStale \/ Dequeue
    \/ NoExecutor \/ EarlyCheck \/ Drop \/ StartExecutor
    \/ ExecutorReturns \/ ExecutorCancelled \/ ExecutorRaises
    \/ Classify \/ Retry \/ Finish

Next ==
    \/ \E k \in Keys : Enqueue(k)
    \/ \E j \in JobIds : RequestCancel(j)
    \/ WorkerStep
    \/ Heartbeat
    \/ Crash
    \/ TimePasses

Spec == Init /\ [][Next]_vars

\* The worker thread is an endless loop whose waits all have timeouts, the
\* container is restarted after a crash, every executor step is bounded by a
\* timeout, and the clock advances.  HTTP requests, crashes and database errors
\* are never owed to anyone.
Fairness == WF_vars(WorkerStep) /\ WF_vars(RecoverStale) /\ WF_vars(TimePasses)

FairSpec == Spec /\ Fairness

-----------------------------------------------------------------------------
(* Safety *)

\* The type invariant: rows have the columns' values, and a worker that is
\* executing holds the id of a row.
TypeOK ==
    /\ JobsTypeOK
    /\ worker \in WorkerState
    /\ worker.pc \notin {"down", "idle"} => worker.job \in JobIds
    /\ crashes \in Nat /\ faults \in Nat
    /\ asked \in SUBSET JobIds
    /\ starts \in [JobIds -> Nat]

\* At most one queued, running or cancelling job per dedupe key, whatever
\* retries, recoveries and late outcome writes do to rows that existed when
\* enqueue_job made its check.
OneActivePerKey ==
    \A i, j \in JobIds :
        /\ IsActive(i) /\ IsActive(j)
        /\ jobs[i].key = jobs[j].key
        => i = j

\* An executor is never invoked more often than max_attempts allows, counting
\* attempts a crash or an expired lease cut short.  dequeue_next_job itself
\* does not look at max_attempts: every path back to "queued" has to.
AttemptBudget ==
    \A j \in JobIds : jobs[j].state # "absent" => starts[j] <= MaxOf(j)

\* The row of the job the worker is executing is still running or cancelling:
\* neither recovery nor a retry took it away meanwhile, so the outcome the
\* worker is about to write unconditionally is written to its own job.
HeldJobIsMine ==
    \A j \in JobIds : Holding(j) => jobs[j].state \in {"running", "cancelling"}

\* An accepted cancellation is not forgotten: the flag stays up, although the
\* retry UPDATE writes cancel_requested = 0.
CancelNotForgotten == \A j \in asked : jobs[j].cancel

\* A job whose cancellation was accepted before it was claimed never reaches
\* its executor, unless the early check could not read the database.
DoomedNeverStarts ==
    faults = 0 /\ worker.pc \in {"starting", "executing"} => ~worker.doomed

\* An accepted cancellation holds: it is neither forgotten by a retry or a
\* recovery, nor overlooked by the worker that claims the job afterwards.
CancelHolds == CancelNotForgotten /\ DoomedNeverStarts

-----------------------------------------------------------------------------
(* The inductive strengthening of the invariants above *)

\* The attempt accounting of one row.
BudgetOf(j) ==
    /\ jobs[j].state = "absent" => jobs[j].attempts = 0 /\ ~jobs[j].cancel
    /\ jobs[j].attempts <= MaxOf(j)
    /\ jobs[j].state = "queued" => jobs[j].attempts < MaxOf(j)
    /\ starts[j] <= jobs[j].attempts
    /\ Holding(j) /\ worker.pc \in {"claimed", "dropping", "starting"}
          => starts[j] < jobs[j].attempts

\* What the worker's copy of the job says about the row.
WorkerCopy ==
    worker.pc \notin {"down", "idle"} =>
        /\ worker.doomed => worker.job \in asked
        /\ worker.pc = "dropping" => worker.job \in asked
        /\ worker.pc = "finishing" => worker.outcome # "none"
        /\ worker.outcome = "cancelled" => worker.job \in asked

\* Every attempt is accounted for at the moment it is claimed, and the flag
\* cancel_requested is up exactly for the jobs whose cancellation was accepted,
\* through every interleaving of handlers, worker, recovery and crash.
Accounting ==
    /\ \A j \in JobIds : BudgetOf(j)
    /\ \A j \in JobIds : jobs[j].cancel <=> j \in asked
    /\ WorkerCopy

IInv == TypeOK /\ OneActivePerKey /\ HeldJobIsMine /\ Accounting

-----------------------------------------------------------------------------
(* The queue implements its contract. *)

StatusOf(s) == CASE s = "absent" -> "none"
                 [] s = "queued" -> "waiting"
                 [] s \in {"running", "cancelling"} -> "owned"
                 [] OTHER -> s

Contract == INSTANCE JobContract WITH
    Limit  <- [k \in Keys |-> MaxAttempts[TypeOf[k]]],
    key    <- [j \in JobIds |-> jobs[j].key],
    status <- [j \in JobIds |-> StatusOf(jobs[j].state)],
    taken  <- [j \in JobIds |-> jobs[j].attempts],
    wanted <- asked

\* Claims, retries, recoveries, crashes and swallowed database errors are all
\* steps of JobContract: no verdict is revised, no job is claimed beyond its
\* max_attempts, and none is cancelled unasked.
ImplementsContract == Contract!CSpec

-----------------------------------------------------------------------------
(* Liveness *)

\* Every queued or running job is eventually settled, or is asked to cancel
\* while running, through crashes and database errors.
RunningSettles ==
    \A j \in JobIds :
        jobs[j].state \in {"queued", "running"}
            ~> IsTerminal(j) \/ jobs[j].state = "cancelling"

\* Every active job is eventually settled.
EveryJobSettles == \A j \in JobIds : IsActive(j) ~> IsTerminal(j)
=============================================================================
