------------------------------ MODULE JobStore ------------------------------
(***************************************************************************)
(* The jobs table of app/state_db.py: every function that reads or writes  *)
(* it holds state_db._lock and writes it in one statement (recovery: one   *)
(* for each row, repeated at the next boot), hence one step here.          *)
(*                                                                         *)
(* A row keeps what the queue decides on.  Wall-clock columns are reduced  *)
(* to the comparison the queries make with them: `lease' says whether      *)
(* lease_expires_at is ahead of or behind the clock, which is only ever    *)
(* asked of a running row ("none" elsewhere), and `due' whether            *)
(* next_attempt_at has been reached.  Time passing is two actions of its   *)
(* own.  Progress, payload and error texts are left out.  Job ids are      *)
(* handed out in increasing order, so they also stand for created_at.      *)
(***************************************************************************)
EXTENDS Naturals

CONSTANTS
    JobIds,       \* the row ids the table may use, a set of naturals
    Keys,         \* dedupe keys
    Types,        \* executor types
    TypeOf,       \* the job type that is enqueued under a dedupe key
    Priority,     \* its priority, lower first
    MaxAttempts   \* its max_attempts

ASSUME JobStoreAssumption ==
    /\ JobIds \subseteq Nat
    /\ Keys # {}
    /\ TypeOf \in [Keys -> Types]
    /\ Priority \in [Types -> Nat]
    /\ MaxAttempts \in [Types -> Nat \ {0}]

VARIABLE jobs

ActiveJobStates == {"queued", "running", "cancelling"}
TerminalJobStates == {"completed", "failed", "cancelled"}

\* A row; the state "absent" marks an id that no INSERT has used yet.
JobRow == [key      : Keys,
           state    : ActiveJobStates \cup TerminalJobStates \cup {"absent"},
           attempts : Nat,
           cancel   : BOOLEAN,
           lease    : {"none", "valid", "expired"},
           due      : BOOLEAN]

JobsTypeOK == jobs \in [JobIds -> JobRow]

AbsentRow == [key |-> CHOOSE k \in Keys : TRUE, state |-> "absent",
              attempts |-> 0, cancel |-> FALSE, lease |-> "none", due |-> FALSE]

JobsInit == jobs = [j \in JobIds |-> AbsentRow]

MaxOf(j) == MaxAttempts[TypeOf[jobs[j].key]]
IsActive(j) == jobs[j].state \in ActiveJobStates
IsTerminal(j) == jobs[j].state \in TerminalJobStates

-----------------------------------------------------------------------------
(* INSERT and dedupe *)

\* Mutant: a job being cancelled no longer counts as active.
FindQueuedOrRunning(k) ==
    {j \in JobIds : jobs[j].state \in {"queued", "running"} /\ jobs[j].key = k}

find_active_job_by_dedupe(k) == {j \in JobIds : IsActive(j) /\ jobs[j].key = k}

\* The id the next INSERT gets.
IsNextId(j) == /\ jobs[j].state = "absent"
               /\ \A i \in JobIds : i < j => jobs[i].state # "absent"

InsertedRow(k) == [key |-> k, state |-> "queued", attempts |-> 0,
                   cancel |-> FALSE, lease |-> "none", due |-> TRUE]

\* enqueue_job returning the id j: an active job's under the same key, or a
\* new row's.
enqueue_job(k, j) ==
    \/ /\ j \in find_active_job_by_dedupe(k)
       /\ UNCHANGED jobs
    \/ /\ find_active_job_by_dedupe(k) = {}
       /\ IsNextId(j)
       /\ jobs' = [jobs EXCEPT ![j] = InsertedRow(k)]

-----------------------------------------------------------------------------
(* Claiming, and the lease *)

Eligible(types) ==
    {j \in JobIds : /\ jobs[j].state = "queued"
                    /\ jobs[j].due
                    /\ TypeOf[jobs[j].key] \in types}

\* ORDER BY priority ASC, created_at ASC
Precedes(i, j) ==
    LET p(x) == Priority[TypeOf[jobs[x].key]]
    IN  p(i) < p(j) \/ (p(i) = p(j) /\ i <= j)

ClaimedRow(r) == [r EXCEPT !.state = "running", !.lease = "valid",
                           !.attempts = r.attempts + 1]

dequeue_next_job(j, types) ==
    /\ j \in Eligible(types)
    /\ \A i \in Eligible(types) : Precedes(j, i)
    /\ jobs' = [jobs EXCEPT ![j] = ClaimedRow(jobs[j])]

heartbeat_job(j) ==
    jobs' = IF jobs[j].state = "running"
            THEN [jobs EXCEPT ![j] = [jobs[j] EXCEPT !.lease = "valid"]]
            ELSE jobs

-----------------------------------------------------------------------------
(* Outcomes.  The three mark_job_ functions update the row whatever state  *)
(* it is in.                                                               *)

MarkedRow(r, s) == [r EXCEPT !.state = s, !.lease = "none"]

MarkJob(j, s) == jobs' = [jobs EXCEPT ![j] = MarkedRow(jobs[j], s)]

mark_job_completed(j) == MarkJob(j, "completed")
mark_job_failed(j) == MarkJob(j, "failed")
mark_job_cancelled(j) == MarkJob(j, "cancelled")

\* Mutant: the retry UPDATE does not look at cancel_requested.
CanRetryRegardless(j) ==
    jobs[j].state \in {"running", "cancelling"} /\ jobs[j].attempts < MaxOf(j)

\* The WHERE clause of the retry UPDATE.
CanRetry(j) ==
    /\ jobs[j].state \in {"running", "cancelling"}
    /\ jobs[j].attempts < MaxOf(j)
    /\ ~jobs[j].cancel

RetryRow(r) == [r EXCEPT !.state = "queued", !.lease = "none", !.due = FALSE,
                         !.cancel = FALSE]

schedule_job_retry(j) ==
    /\ CanRetry(j)
    /\ jobs' = [jobs EXCEPT ![j] = RetryRow(jobs[j])]

-----------------------------------------------------------------------------
(* Cancellation *)

CancelRow(r) == [r EXCEPT !.cancel = TRUE, !.lease = "none",
                          !.state = IF r.state = "running" THEN "cancelling"
                                    ELSE r.state]

\* Mutant: the UPDATE does not ask for an active row.
RequestAnyCancel(j) == jobs' = [jobs EXCEPT ![j] = CancelRow(jobs[j])]

request_job_cancel(j) ==
    /\ IsActive(j)
    /\ jobs' = [jobs EXCEPT ![j] = CancelRow(jobs[j])]

is_job_cancel_requested(j) == jobs[j].cancel

-----------------------------------------------------------------------------
(* Stale-lease recovery *)

\* The rows recover_stale_running_jobs selects: with force=True every running
\* row, else those whose lease has expired.
Running == {j \in JobIds : jobs[j].state = "running"}
\* Mutant: a cleared lease is taken for an expired one.
Unleased == {j \in Running : jobs[j].lease = "none"}

Expired == {j \in Running : jobs[j].lease = "expired"}

\* Mutant: recovery never gives up on a job.
AlwaysRequeued(r, max) == [r EXCEPT !.state = "queued", !.lease = "none", !.due = FALSE]

RecoveredRow(r, max) ==
    IF r.attempts >= max
    THEN MarkedRow(r, "failed")
    ELSE [r EXCEPT !.state = "queued", !.lease = "none", !.due = FALSE]

recover_stale_running_jobs(stale) ==
    jobs' = [j \in JobIds |-> IF j \in stale
                              THEN RecoveredRow(jobs[j], MaxOf(j))
                              ELSE jobs[j]]

count_active_jobs(types) == {j \in JobIds : IsActive(j)
                                             /\ TypeOf[jobs[j].key] \in types}

-----------------------------------------------------------------------------
(* The clock reaching lease_expires_at or next_attempt_at of a row *)

LeaseRunsOut(j) ==
    /\ jobs[j].lease = "valid"
    /\ jobs' = [jobs EXCEPT ![j] = [jobs[j] EXCEPT !.lease = "expired"]]

BecomesDue(j) ==
    /\ jobs[j].state = "queued"
    /\ ~jobs[j].due
    /\ jobs' = [jobs EXCEPT ![j] = [jobs[j] EXCEPT !.due = TRUE]]
=============================================================================
