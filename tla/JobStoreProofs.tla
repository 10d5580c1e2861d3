--------------------------- MODULE JobStoreProofs ---------------------------
(* Lemmas about the jobs table that the proofs of every module built on    *)
(* JobStore use: its transactions keep its type.                           *)
EXTENDS JobStore, TLAPS

\* Every rewrite of a row that state_db makes yields a row.
LEMMA NewRowTypes == /\ AbsentRow \in JobRow
                     /\ \A k \in Keys : InsertedRow(k) \in JobRow
  BY JobStoreAssumption
  DEF AbsentRow, InsertedRow, JobRow, ActiveJobStates, TerminalJobStates

LEMMA RowTypes ==
    ASSUME NEW r \in JobRow
    PROVE  /\ ClaimedRow(r) \in JobRow
           /\ RetryRow(r) \in JobRow
           /\ CancelRow(r) \in JobRow
           /\ \A s \in TerminalJobStates : MarkedRow(r, s) \in JobRow
           /\ \A m \in Nat : RecoveredRow(r, m) \in JobRow
           /\ [r EXCEPT !.lease = "valid"] \in JobRow
           /\ [r EXCEPT !.lease = "expired"] \in JobRow
           /\ [r EXCEPT !.due = TRUE] \in JobRow
  <1> USE DEF JobRow, ActiveJobStates, TerminalJobStates
  <1>1. ClaimedRow(r) \in JobRow
    <2>1. r.attempts + 1 \in Nat
      OBVIOUS
    <2>2. \A n \in Nat : [r EXCEPT !.state = "running", !.lease = "valid",
                                   !.attempts = n] \in JobRow
      OBVIOUS
    <2> QED BY <2>1, <2>2 DEF ClaimedRow
  <1>2. RetryRow(r) \in JobRow
    BY DEF RetryRow
  <1>3. CancelRow(r) \in JobRow
    BY DEF CancelRow
  <1>4. \A s \in TerminalJobStates : MarkedRow(r, s) \in JobRow
    BY DEF MarkedRow
  <1>5. \A m \in Nat : RecoveredRow(r, m) \in JobRow
    BY DEF RecoveredRow, MarkedRow
  <1>6. /\ [r EXCEPT !.lease = "valid"] \in JobRow
        /\ [r EXCEPT !.lease = "expired"] \in JobRow
        /\ [r EXCEPT !.due = TRUE] \in JobRow
    OBVIOUS
  <1> QED BY <1>1, <1>2, <1>3, <1>4, <1>5, <1>6

\* The limit of a row is a positive number.
LEMMA LimitType ==
    ASSUME JobsTypeOK, NEW j \in JobIds
    PROVE  /\ jobs[j] \in JobRow
           /\ jobs[j].key \in Keys
           /\ MaxOf(j) \in Nat \ {0}
  BY JobStoreAssumption DEF JobsTypeOK, MaxOf, JobRow

\* Every transaction of state_db on the jobs table keeps the table's type.
LEMMA EnqueueTypes ==
    ASSUME JobsTypeOK, NEW j \in JobIds, NEW k \in Keys, enqueue_job(k, j)
    PROVE  JobsTypeOK'
  BY NewRowTypes DEF enqueue_job, JobsTypeOK

LEMMA RecoverTypes ==
    ASSUME JobsTypeOK, NEW S, recover_stale_running_jobs(S)
    PROVE  JobsTypeOK'
  <1>1. \A i \in JobIds : /\ jobs[i] \in JobRow
                          /\ RecoveredRow(jobs[i], MaxOf(i)) \in JobRow
    BY LimitType, RowTypes
  <1> QED BY <1>1 DEF recover_stale_running_jobs, JobsTypeOK

LEMMA UpdateTypes ==
    ASSUME JobsTypeOK, NEW j \in JobIds
    PROVE  /\ \A T : dequeue_next_job(j, T) => JobsTypeOK'
           /\ heartbeat_job(j) => JobsTypeOK'
           /\ mark_job_completed(j) => JobsTypeOK'
           /\ mark_job_failed(j) => JobsTypeOK'
           /\ mark_job_cancelled(j) => JobsTypeOK'
           /\ schedule_job_retry(j) => JobsTypeOK'
           /\ request_job_cancel(j) => JobsTypeOK'
           /\ LeaseRunsOut(j) \/ BecomesDue(j) => JobsTypeOK'
  <1>1. jobs[j] \in JobRow
    BY LimitType
  <1>2. \A r \in JobRow : [jobs EXCEPT ![j] = r] \in [JobIds -> JobRow]
    BY DEF JobsTypeOK
  <1>4. \A T : dequeue_next_job(j, T) => JobsTypeOK'
    BY <1>1, <1>2, RowTypes DEF dequeue_next_job, JobsTypeOK
  <1>5. heartbeat_job(j) => JobsTypeOK'
    BY <1>1, <1>2, RowTypes DEF heartbeat_job, JobsTypeOK
  <1>6. /\ mark_job_completed(j) => JobsTypeOK'
        /\ mark_job_failed(j) => JobsTypeOK'
        /\ mark_job_cancelled(j) => JobsTypeOK'
    BY <1>1, <1>2, RowTypes
    DEF mark_job_completed, mark_job_failed, mark_job_cancelled, MarkJob,
        JobsTypeOK, TerminalJobStates
  <1>7. schedule_job_retry(j) => JobsTypeOK'
    BY <1>1, <1>2, RowTypes DEF schedule_job_retry, JobsTypeOK
  <1>8. request_job_cancel(j) => JobsTypeOK'
    BY <1>1, <1>2, RowTypes DEF request_job_cancel, JobsTypeOK
  <1>9. LeaseRunsOut(j) \/ BecomesDue(j) => JobsTypeOK'
    BY <1>1, <1>2, RowTypes DEF LeaseRunsOut, BecomesDue, JobsTypeOK
  <1> QED BY <1>4, <1>5, <1>6, <1>7, <1>8, <1>9

-----------------------------------------------------------------------------
(* What the transactions on the table leave of a row *)

\* A rewrite other than INSERT: the same job, its flag kept, and when it has
\* ended its verdict too.
RowStays(r, s) ==
    /\ s.key = r.key
    /\ s.state = "absent" <=> r.state = "absent"
    /\ r.state \notin ActiveJobStates => s.state = r.state
    /\ r.cancel => s.cancel

RowsKept == \A i \in JobIds : RowStays(jobs[i], jobs'[i])

LEMMA RowsStay ==
    ASSUME NEW r \in JobRow
    PROVE  /\ RowStays(r, r)
           /\ r.state \in ActiveJobStates =>
                 RowStays(r, CancelRow(r)) /\ CancelRow(r).state \in ActiveJobStates
                 /\ CancelRow(r).cancel = TRUE
           /\ \A s \in TerminalJobStates :
                 /\ r.state \in ActiveJobStates => RowStays(r, MarkedRow(r, s))
                 /\ MarkedRow(r, s).state = s
           /\ r.state \in ActiveJobStates /\ ~r.cancel =>
                 RowStays(r, RetryRow(r)) /\ RetryRow(r).state = "queued"
           /\ r.state = "queued" => /\ RowStays(r, ClaimedRow(r))
                                    /\ ClaimedRow(r).state \in ActiveJobStates
           /\ r.state = "queued" => RowStays(r, [r EXCEPT !.due = TRUE])
           /\ [r EXCEPT !.due = TRUE].state = r.state
           /\ \A m \in Nat : r.state = "running" => RowStays(r, RecoveredRow(r, m))
  <1> USE DEF RowStays, JobRow, ActiveJobStates, TerminalJobStates
  <1>1. /\ RowStays(r, r)
        /\ r.state = "queued" => RowStays(r, [r EXCEPT !.due = TRUE])
        /\ [r EXCEPT !.due = TRUE].state = r.state
    OBVIOUS
  <1>2. r.state \in ActiveJobStates =>
            /\ RowStays(r, CancelRow(r)) /\ CancelRow(r).state \in ActiveJobStates
            /\ CancelRow(r).cancel = TRUE
    BY DEF CancelRow
  <1>3. \A s \in TerminalJobStates :
            /\ r.state \in ActiveJobStates => RowStays(r, MarkedRow(r, s))
            /\ MarkedRow(r, s).state = s
    BY DEF MarkedRow
  <1>6. r.state \in ActiveJobStates /\ ~r.cancel =>
            RowStays(r, RetryRow(r)) /\ RetryRow(r).state = "queued"
    BY DEF RetryRow
  <1>4. r.state = "queued" => /\ RowStays(r, ClaimedRow(r))
                              /\ ClaimedRow(r).state \in ActiveJobStates
    BY DEF ClaimedRow
  <1>5. \A m \in Nat : r.state = "running" => RowStays(r, RecoveredRow(r, m))
    BY DEF RecoveredRow, MarkedRow
  <1> QED BY <1>1, <1>2, <1>3, <1>4, <1>5, <1>6

\* Every transaction on the jobs table that a step makes, but the INSERT.
LEMMA TableSteps ==
    ASSUME JobsTypeOK
    PROVE  /\ UNCHANGED jobs => RowsKept /\ JobsTypeOK'
           /\ recover_stale_running_jobs(Running) =>
                 /\ RowsKept /\ JobsTypeOK'
                 /\ \A k \in JobIds : IsActive(k) => jobs'[k].state \in ActiveJobStates \cup {"failed"}
           /\ \A i \in JobIds :
                 /\ request_job_cancel(i) =>
                       /\ RowsKept /\ JobsTypeOK'
                       /\ jobs'[i].cancel = TRUE
                       /\ \A k \in JobIds : IsActive(k) => IsActive(k)'
                 /\ dequeue_next_job(i, Types) =>
                       /\ RowsKept /\ JobsTypeOK' /\ jobs'[i].state \in ActiveJobStates
                       /\ \A k \in JobIds \ {i} : jobs'[k] = jobs[k]
                 /\ BecomesDue(i) => /\ RowsKept /\ JobsTypeOK'
                                     /\ \A k \in JobIds : IsActive(k) => IsActive(k)'
                 /\ schedule_job_retry(i) => /\ RowsKept /\ JobsTypeOK' /\ jobs'[i].state = "queued"
                                             /\ \A k \in JobIds \ {i} : jobs'[k] = jobs[k]
                 /\ \A s \in TerminalJobStates :
                       MarkJob(i, s) /\ IsActive(i) => /\ RowsKept /\ JobsTypeOK'
                                                      /\ jobs'[i].state = s
                                                      /\ \A k \in JobIds \ {i} : jobs'[k] = jobs[k]
  <1>0. \A i \in JobIds : jobs[i] \in JobRow /\ MaxOf(i) \in Nat
    BY LimitType
  <1>1. UNCHANGED jobs => RowsKept /\ JobsTypeOK'
    BY <1>0, RowsStay DEF RowsKept, JobsTypeOK
  <1>2. ASSUME recover_stale_running_jobs(Running)
        PROVE  /\ RowsKept /\ JobsTypeOK'
               /\ \A k \in JobIds : IsActive(k) => jobs'[k].state \in ActiveJobStates \cup {"failed"}
    <2>1. \A i \in JobIds : /\ RowStays(jobs[i], jobs[i])
                            /\ jobs[i].state = "running" =>
                                  RowStays(jobs[i], RecoveredRow(jobs[i], MaxOf(i)))
      BY <1>0, RowsStay
    <2>2. RowsKept
      BY <1>2, <2>1 DEF RowsKept, recover_stale_running_jobs, Running
    <2>3. \A r \in JobRow, m \in Nat : RecoveredRow(r, m).state \in ActiveJobStates \cup {"failed"}
      BY DEF RecoveredRow, MarkedRow, JobRow, ActiveJobStates
    <2>4. \A k \in JobIds : IsActive(k) => jobs'[k].state \in ActiveJobStates \cup {"failed"}
      BY <1>0, <1>2, <2>3 DEF recover_stale_running_jobs, IsActive
    <2> QED BY <1>2, <2>2, <2>4, RecoverTypes
  <1>3. ASSUME NEW i \in JobIds, NEW r \in JobRow, jobs' = [jobs EXCEPT ![i] = r],
               RowStays(jobs[i], r)
        PROVE  RowsKept /\ JobsTypeOK' /\ jobs'[i] = r /\ \A k \in JobIds \ {i} : jobs'[k] = jobs[k]
    BY <1>0, <1>3, RowsStay DEF RowsKept, JobsTypeOK
  <1>4. ASSUME NEW i \in JobIds, request_job_cancel(i)
        PROVE  /\ RowsKept /\ JobsTypeOK' /\ jobs'[i].cancel = TRUE
               /\ \A k \in JobIds : IsActive(k) => IsActive(k)'
    <2> DEFINE r == CancelRow(jobs[i])
    <2>1. jobs' = [jobs EXCEPT ![i] = r] /\ jobs[i].state \in ActiveJobStates
      BY <1>4 DEF request_job_cancel, IsActive
    <2>2. r \in JobRow
      BY <1>0, RowTypes
    <2>3. RowStays(jobs[i], r) /\ r.state \in ActiveJobStates /\ r.cancel = TRUE
      BY <1>0, <2>1, RowsStay
    <2> HIDE DEF r
    <2>4. RowsKept /\ JobsTypeOK' /\ jobs'[i] = r /\ \A k \in JobIds \ {i} : jobs'[k] = jobs[k]
      BY <1>3, <2>1, <2>2, <2>3
    <2> QED BY <2>3, <2>4 DEF IsActive
  <1>5. ASSUME NEW i \in JobIds, dequeue_next_job(i, Types)
        PROVE  RowsKept /\ JobsTypeOK' /\ jobs'[i].state \in ActiveJobStates
               /\ \A k \in JobIds \ {i} : jobs'[k] = jobs[k]
    <2> DEFINE r == ClaimedRow(jobs[i])
    <2>1. jobs' = [jobs EXCEPT ![i] = r] /\ jobs[i].state = "queued"
      BY <1>5 DEF dequeue_next_job, Eligible
    <2>2. r \in JobRow
      BY <1>0, RowTypes
    <2>3. RowStays(jobs[i], r) /\ r.state \in ActiveJobStates
      BY <1>0, <2>1, RowsStay
    <2> HIDE DEF r
    <2> QED BY <1>3, <2>1, <2>2, <2>3
  <1>6. ASSUME NEW i \in JobIds, BecomesDue(i)
        PROVE  RowsKept /\ JobsTypeOK' /\ \A k \in JobIds : IsActive(k) => IsActive(k)'
    <2> DEFINE r == [jobs[i] EXCEPT !.due = TRUE]
    <2>1. jobs' = [jobs EXCEPT ![i] = r] /\ jobs[i].state = "queued"
      BY <1>6 DEF BecomesDue
    <2>2. r \in JobRow
      BY <1>0, RowTypes
    <2>3. RowStays(jobs[i], r) /\ r.state = jobs[i].state
      BY <1>0, <2>1, RowsStay
    <2> HIDE DEF r
    <2>4. RowsKept /\ JobsTypeOK' /\ jobs'[i] = r /\ \A k \in JobIds \ {i} : jobs'[k] = jobs[k]
      BY <1>3, <2>1, <2>2, <2>3
    <2> QED BY <2>3, <2>4 DEF IsActive
  <1>7. ASSUME NEW i \in JobIds, NEW s \in TerminalJobStates, MarkJob(i, s), IsActive(i)
        PROVE  RowsKept /\ JobsTypeOK' /\ jobs'[i].state = s
               /\ \A k \in JobIds \ {i} : jobs'[k] = jobs[k]
    <2> DEFINE r == MarkedRow(jobs[i], s)
    <2>1. jobs' = [jobs EXCEPT ![i] = r]
      BY <1>7 DEF MarkJob
    <2>2. r \in JobRow
      BY <1>0, RowTypes
    <2>3. RowStays(jobs[i], r) /\ r.state = s
      BY <1>0, <1>7, RowsStay DEF IsActive
    <2> HIDE DEF r
    <2> QED BY <1>3, <2>1, <2>2, <2>3
  <1>8. ASSUME NEW i \in JobIds, schedule_job_retry(i)
        PROVE  RowsKept /\ JobsTypeOK' /\ jobs'[i].state = "queued"
               /\ \A k \in JobIds \ {i} : jobs'[k] = jobs[k]
    <2> DEFINE r == RetryRow(jobs[i])
    <2>1. jobs' = [jobs EXCEPT ![i] = r] /\ jobs[i].state \in ActiveJobStates /\ ~jobs[i].cancel
      BY <1>8 DEF schedule_job_retry, CanRetry, ActiveJobStates
    <2>2. r \in JobRow
      BY <1>0, RowTypes
    <2>3. RowStays(jobs[i], r) /\ r.state = "queued"
      BY <1>0, <2>1, RowsStay
    <2> HIDE DEF r
    <2> QED BY <1>3, <2>1, <2>2, <2>3
  <1> QED BY <1>1, <1>2, <1>4, <1>5, <1>6, <1>7, <1>8

\* What they leave of the active jobs of a key.
LEMMA ActiveEnd ==
    ASSUME RowsKept
    PROVE  \A j : \A i \in find_active_job_by_dedupe(j)' :
               /\ i \in find_active_job_by_dedupe(j)
               /\ jobs[i].cancel => jobs'[i].cancel
  BY DEF RowsKept, RowStays, find_active_job_by_dedupe, IsActive
=============================================================================
