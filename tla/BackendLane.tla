---------------------------- MODULE BackendLane ----------------------------
(***************************************************************************)
(* The Mintarr-managed download lane (ADR-0014).  Lidarr adds a release to *)
(* what it takes for a SABnzbd; Mintarr submits it to the real one, polls  *)
(* it, and hands the finished download to its own import queue.            *)
(*                                                                         *)
(* One release is spread over five places, each written on its own: the    *)
(* durable backend_jobs row (`lane'), the projection Lidarr is shown       *)
(* (`proj', jobs.json), the verification record, the ingest job in the     *)
(* jobs table, and the backend and Lidarr themselves.  HTTP handlers run   *)
(* one at a time (one synchronous gunicorn worker) beside the import       *)
(* worker; `http' and `worker' are where the two stand.                    *)
(*                                                                         *)
(* The ingest job's lease is module JobQueue's subject: a live worker      *)
(* keeps it, and after a crash the boot recovery takes the job back.  The  *)
(* pipeline is reduced to its outcomes and to the checkpoints at which it  *)
(* looks at the cancel flag.                                               *)
(***************************************************************************)
EXTENDS JobStore

CONSTANTS
    MaxDeletes,   \* bound on removals Lidarr asks for
    MaxCancels,   \* bound on cancellations from the dashboard's job page
    MaxCrashes,   \* bound on process crashes
    MaxFaults     \* bound on swallowed database errors

ASSUME BackendLaneAssumption ==
    /\ JobIds \subseteq Nat \ {0}
    /\ MaxDeletes \in Nat /\ MaxCancels \in Nat
    /\ MaxCrashes \in Nat /\ MaxFaults \in Nat

\* A dedupe key backend:<jid> stands for its jid.
Jids == Keys

VARIABLES
    lane,      \* backend_jobs.state of each jid
    remote,    \* the backend's download
    proj,      \* the _jobs projection
    record,    \* the verification record
    library,   \* the ManualImport command sent to Lidarr for the jid
    http,      \* the HTTP handler between two of its transactions
    worker,    \* the import worker
    spent,     \* how much of each bound is used up
    removed    \* ghost: jids whose removal by Lidarr was recorded

vars == <<jobs, lane, remote, proj, record, library, http, worker, spent, removed>>

BACKEND_JOB_STATES == {"queued", "downloading", "completed", "importing",
                       "review", "imported", "failed", "cancelled"}
BACKEND_JOB_TERMINAL_STATES == {"imported", "failed", "cancelled"}

Projection == [status : {"none", "downloading", "processing", "review_required",
                         "completed", "failed"},
               hold : BOOLEAN, hidden : BOOLEAN]
NoProjection == [status |-> "none", hold |-> FALSE, hidden |-> FALSE]

RecordStates == {"none", "review", "pending", "imported", "failed", "blocked",
                 "discarded", "expired"}
ClosedRecords == RecordStates \ {"none", "review", "pending"}

HttpIdle == [pc |-> "idle", jid |-> CHOOSE k \in Keys : TRUE]
WorkerAt(pc) == [pc |-> pc, job |-> 0, raised |-> FALSE, state |-> "imported",
                 verdict |-> "completed"]

Init ==
    /\ JobsInit
    /\ lane = [j \in Jids |-> "absent"]
    /\ remote = [j \in Jids |-> "none"]
    /\ proj = [j \in Jids |-> NoProjection]
    /\ record = [j \in Jids |-> "none"]
    /\ library = [j \in Jids |-> "none"]
    /\ http = HttpIdle
    /\ worker = WorkerAt("idle")
    /\ spent = [deletes |-> 0, cancels |-> 0, crashes |-> 0, faults |-> 0]
    /\ removed = {}

Up == worker.pc # "down"
Ready == Up /\ http.pc = "idle"
To(pc, j) == http' = [pc |-> pc, jid |-> j]
Done == http' = HttpIdle

\* A transaction that fails is rolled back and reported as "nothing done".
Fault == spent.faults < MaxFaults /\ spent' = [spent EXCEPT !.faults = @ + 1]
NoFault == UNCHANGED spent

update_backend_job(j, s) == lane' = [lane EXCEPT ![j] = s]
Status(j, s) == proj' = [proj EXCEPT ![j].status = s]
Project(j, s, hold, hidden) ==
    proj' = [proj EXCEPT ![j] = [status |-> s, hold |-> hold, hidden |-> hidden]]

-----------------------------------------------------------------------------
(* Submission *)

\* The backend has accepted the release; if the row cannot be stored the
\* submission is withdrawn, on a best-effort basis.
AddUrl(j) ==
    /\ Ready
    /\ lane[j] = "absent" /\ remote[j] = "none"
    /\ \/ /\ remote' = [remote EXCEPT ![j] = "queued"]
          /\ update_backend_job(j, "downloading")
          /\ Status(j, "downloading")
          /\ NoFault
       \/ /\ Fault
          /\ \E r \in {"queued", "gone"} : remote' = [remote EXCEPT ![j] = r]
          /\ UNCHANGED <<lane, proj>>
    /\ UNCHANGED <<jobs, record, library, http, worker, removed>>

-----------------------------------------------------------------------------
(* The queue poll *)

next_lifecycle_state(current, report) ==
    IF \/ current \in BACKEND_JOB_TERMINAL_STATES \cup {"importing", "review"}
       \/ report = "unknown"
    THEN current ELSE report

\* Mutant: a projection status the queue listing does not know.
StatusVerifying(s) ==
    CASE s = "failed" -> "failed"
      [] s \in {"completed", "importing", "review"} -> "verifying"
      [] OTHER -> "downloading"

_backend_state_to_jobs_status(s) ==
    CASE s = "failed" -> "failed"
      [] s \in {"completed", "importing", "review"} -> "processing"
      [] OTHER -> "downloading"

\* What the backend may answer: its state, or nothing useful.
Reports(j) == {"unknown"} \cup (IF remote[j] = "gone" THEN {} ELSE {remote[j]})

\* _reconcile_backend_jobs for one row it does not leave alone: the row first,
\* then the projection; a completed download whose path lies under the download
\* root goes on to ingest.
Poll(j) ==
    /\ Ready
    /\ lane[j] \in {"queued", "downloading", "completed"}
    /\ \/ \E report \in Reports(j) :
          LET s == next_lifecycle_state(lane[j], report) IN
          /\ update_backend_job(j, s)
          /\ Status(j, _backend_state_to_jobs_status(s))
          /\ \/ s = "completed" /\ report = "completed" /\ To("ingest", j)
             \/ UNCHANGED http
          /\ NoFault
       \/ Fault /\ UNCHANGED <<lane, proj, http>>
    /\ UNCHANGED <<jobs, remote, record, library, worker, removed>>

_backend_review_row_visible(j) == record[j] \notin ClosedRecords

\* A row under review only has its projection rebuilt.
RestoreReview(j) ==
    /\ Ready
    /\ lane[j] = "review" /\ _backend_review_row_visible(j)
    /\ Project(j, "review_required", TRUE, proj[j].hidden)
    /\ UNCHANGED <<jobs, lane, remote, record, library, http, worker, spent, removed>>

\* _reconcile_pending_import_jobs and _reconcile_imported_backend_record_audits:
\* a record left PENDING follows Lidarr, or the row that says imported.
SettlePending(j) ==
    /\ Ready
    /\ record[j] = "pending"
    /\ \/ /\ lane[j] = "imported" \/ (proj[j].status = "processing" /\ library[j] = "imported")
          /\ record' = [record EXCEPT ![j] = "imported"]
          /\ Project(j, "completed", FALSE, TRUE)
       \/ /\ proj[j].status = "processing" /\ library[j] = "refused"
          /\ record' = [record EXCEPT ![j] = "failed"]
          /\ Project(j, "failed", FALSE, TRUE)
    /\ UNCHANGED <<jobs, lane, remote, library, http, worker, spent, removed>>

\* Mutant: the job is created whether or not the row was written.
StartIngestRegardless ==
    /\ http.pc = "ingest"
    /\ To("enqueue", http.jid)
    /\ \/ update_backend_job(http.jid, "importing") /\ NoFault
       \/ Fault /\ UNCHANGED lane
    /\ UNCHANGED <<jobs, remote, proj, record, library, worker, removed>>

\* _start_backend_ingest: the row says importing before there is a job ...
StartIngest ==
    /\ http.pc = "ingest"
    /\ \/ update_backend_job(http.jid, "importing") /\ To("enqueue", http.jid) /\ NoFault
       \/ Fault /\ Done /\ UNCHANGED lane
    /\ UNCHANGED <<jobs, remote, proj, record, library, worker, removed>>

\* ... then the job is created ...
EnqueueIngest ==
    /\ http.pc = "enqueue"
    /\ \/ (\E i \in JobIds : enqueue_job(http.jid, i)) /\ Done /\ NoFault
       \/ Fault /\ To("revert", http.jid) /\ UNCHANGED jobs
    /\ UNCHANGED <<lane, remote, proj, record, library, worker, removed>>

\* ... or the row is put back for a later poll.
RevertIngest ==
    /\ http.pc = "revert"
    /\ Done
    /\ \/ update_backend_job(http.jid, "completed") /\ NoFault
       \/ Fault /\ UNCHANGED lane
    /\ UNCHANGED <<jobs, remote, proj, record, library, worker, removed>>

\* Mutant: only projections are listed.
ShownByProjection(j) ==
    /\ ~proj[j].hidden /\ lane[j] \notin BACKEND_JOB_TERMINAL_STATES
    /\ proj[j].status \in {"downloading", "processing"} \/ proj[j].hold

\* What a queue listing shows Lidarr: live projections, and rows under review
\* whose projection is missing or hidden.
ShownToLidarr(j) ==
    \/ /\ ~proj[j].hidden /\ lane[j] \notin BACKEND_JOB_TERMINAL_STATES
       /\ proj[j].status \in {"downloading", "processing"} \/ proj[j].hold
    \/ lane[j] = "review" /\ _backend_review_row_visible(j)

-----------------------------------------------------------------------------
(* Lidarr removes a download: _cancel_and_hide_job.  The ingest job is      *)
(* flagged, then the row is read, then it is written.                       *)

\* Mutant: a removal of a backend release only touches the lane's row.
DeleteLaneOnly(j) ==
    /\ Ready
    /\ lane[j] # "absent"
    /\ spent.deletes < MaxDeletes
    /\ spent' = [spent EXCEPT !.deletes = @ + 1]
    /\ To("deleting", j)
    /\ UNCHANGED <<jobs, lane, remote, proj, record, library, worker, removed>>

Delete(j) ==
    /\ Ready
    /\ lane[j] # "absent"
    /\ spent.deletes < MaxDeletes
    /\ To("deleting", j)
    /\ LET used == [spent EXCEPT !.deletes = @ + 1] IN
       \/ /\ \E i \in find_active_job_by_dedupe(j) : request_job_cancel(i)
          /\ spent' = used
       \/ /\ find_active_job_by_dedupe(j) = {}
          /\ UNCHANGED jobs
          /\ spent' = used
       \/ /\ spent.faults < MaxFaults
          /\ UNCHANGED jobs
          /\ spent' = [used EXCEPT !.faults = @ + 1]
    /\ UNCHANGED <<lane, remote, proj, record, library, worker, removed>>

\* _hide_from_lidarr
Hide(j) == proj' = [proj EXCEPT ![j].hidden = proj[j].status # "none"]

DeleteReads ==
    /\ http.pc = "deleting"
    /\ \/ lane[http.jid] \in BACKEND_JOB_TERMINAL_STATES /\ Hide(http.jid) /\ Done
       \/ /\ lane[http.jid] \notin BACKEND_JOB_TERMINAL_STATES
          /\ To("cancelling", http.jid)
          /\ UNCHANGED proj
    /\ UNCHANGED <<jobs, lane, remote, record, library, worker, spent, removed>>

\* The durable cancel first; if it is not recorded the release stays visible.
\* Cancelling the backend's download afterwards may fail.
DeleteWrites ==
    /\ http.pc = "cancelling"
    /\ Done
    /\ \/ /\ update_backend_job(http.jid, "cancelled")
          /\ \E r \in {"gone", remote[http.jid]} : remote' = [remote EXCEPT ![http.jid] = r]
          /\ Hide(http.jid)
          /\ removed' = removed \cup {http.jid}
          /\ NoFault
       \/ Fault /\ UNCHANGED <<lane, remote, proj, removed>>
    /\ UNCHANGED <<jobs, record, library, worker>>

\* The dashboard's job page, which knows nothing of the lane.
CancelJob(i) ==
    /\ Ready
    /\ spent.cancels < MaxCancels
    /\ request_job_cancel(i)
    /\ spent' = [spent EXCEPT !.cancels = @ + 1]
    /\ UNCHANGED <<lane, remote, proj, record, library, http, worker, removed>>

-----------------------------------------------------------------------------
(* The operator and a record under review *)

\* verification_discard: queue cleaned and record closed ...
Discard(j) ==
    /\ Ready
    /\ record[j] = "review"
    /\ record' = [record EXCEPT ![j] = "discarded"]
    /\ Hide(j)
    /\ To("discarding", j)
    /\ UNCHANGED <<jobs, lane, remote, library, worker, spent, removed>>

\* ... then _mark_backend_job_discarded and _mark_import_failed.
DiscardLane ==
    /\ http.pc = "discarding"
    /\ Done
    /\ Project(http.jid, "failed", FALSE, TRUE)
    /\ \/ /\ lane[http.jid] \in BACKEND_JOB_TERMINAL_STATES
          /\ UNCHANGED lane /\ NoFault
       \/ /\ lane[http.jid] \notin BACKEND_JOB_TERMINAL_STATES
          /\ update_backend_job(http.jid, "cancelled") /\ NoFault
       \/ Fault /\ UNCHANGED lane
    /\ UNCHANGED <<jobs, remote, record, library, worker, removed>>

\* _expire_review_required_jobs: the lane's row is left under review.
Expire(j) ==
    /\ Up
    /\ record[j] = "review"
    /\ record' = [record EXCEPT ![j] = "expired"]
    /\ IF proj[j].status = "none" THEN UNCHANGED proj
                                  ELSE Project(j, "failed", FALSE, TRUE)
    /\ UNCHANGED <<jobs, lane, remote, library, http, worker, spent, removed>>

\* A promote_import job that succeeds, between two other jobs of the worker.
\* It too leaves the lane's row under review.
Promote(j) ==
    /\ worker.pc = "idle"
    /\ record[j] = "review"
    /\ record' = [record EXCEPT ![j] = "imported"]
    /\ library' = [library EXCEPT ![j] = "imported"]
    /\ Project(j, "completed", FALSE, TRUE)
    /\ UNCHANGED <<jobs, lane, remote, http, worker, spent, removed>>

-----------------------------------------------------------------------------
(* The worker: _execute_job and _execute_backend_completed_grab_job *)

Jid == jobs[worker.job].key
Goto(pc) == worker' = [worker EXCEPT !.pc = pc]
Returns == Goto("mirror")
\* Mutant: a pipeline that raises does not report to the lane.
RaisesUnreported(verdict) == worker' = [worker EXCEPT !.pc = "finishing",
                                                      !.raised = TRUE, !.verdict = verdict]

Raises(verdict) == worker' = [worker EXCEPT !.pc = "mirror", !.raised = TRUE,
                                            !.verdict = verdict]

Claim ==
    /\ worker.pc = "idle"
    /\ \E i \in JobIds : /\ dequeue_next_job(i, Types)
                         /\ worker' = [WorkerAt("claimed") EXCEPT !.job = i]
    /\ UNCHANGED <<lane, remote, proj, record, library, http, spent, removed>>

\* A job cancelled while it was queued never reaches its executor, and so
\* never reports to the lane.
EarlyCheck ==
    /\ worker.pc = "claimed"
    /\ \/ /\ is_job_cancel_requested(worker.job)
          /\ mark_job_cancelled(worker.job)
          /\ worker' = WorkerAt("idle")
          /\ UNCHANGED proj
       \/ /\ ~is_job_cancel_requested(worker.job)
          /\ Goto("pipeline")
          /\ Status(Jid, "downloading")
          /\ UNCHANGED jobs
    /\ UNCHANGED <<lane, remote, record, library, http, spent, removed>>

\* A checkpoint sees the flag: _mark_download_cancelled, JobCancelled.
Checkpoint ==
    /\ worker.pc = "pipeline"
    /\ is_job_cancel_requested(worker.job)
    /\ Project(Jid, "failed", proj[Jid].hold, TRUE)
    /\ Raises("cancelled")
    /\ UNCHANGED <<jobs, lane, remote, record, library, http, spent, removed>>

\* The copy out of the backend's folder fails.
CopyFails ==
    /\ worker.pc = "pipeline"
    /\ Status(Jid, "failed")
    /\ Raises("failed")
    /\ UNCHANGED <<jobs, lane, remote, record, library, http, spent, removed>>

\* import_to_lidarr catching an exception: the projection fails, and without a
\* record so does the job.
ImportRaises ==
    /\ Project(Jid, "failed", FALSE, TRUE)
    /\ IF record[Jid] = "none" THEN Raises("failed") ELSE Returns
    /\ UNCHANGED record

\* Policy blocks the release or holds it for review, the import cannot be
\* tried, there is no Lidarr API key and it is skipped, a request raises, or
\* the rescue places files Lidarr found no candidates for.
Judge ==
    /\ worker.pc = "pipeline"
    /\ \/ /\ record' = [record EXCEPT ![Jid] = "blocked"]
          /\ Project(Jid, "failed", proj[Jid].hold, TRUE)
          /\ Returns /\ UNCHANGED library
       \/ /\ record' = [record EXCEPT ![Jid] = "review"]
          /\ Project(Jid, "review_required", TRUE, FALSE)
          /\ Returns /\ UNCHANGED library
       \/ /\ record' = [record EXCEPT ![Jid] = "failed"]
          /\ Project(Jid, "failed", FALSE, TRUE)
          /\ Returns /\ UNCHANGED library
       \/ /\ Status(Jid, "processing")
          /\ Returns /\ UNCHANGED <<record, library>>
       \/ ImportRaises /\ UNCHANGED library
       \/ /\ ~is_job_cancel_requested(worker.job)
          /\ library' = [library EXCEPT ![Jid] = "imported"]
          /\ Project(Jid, "processing", proj[Jid].hold, TRUE)
          /\ Returns /\ UNCHANGED record
    /\ UNCHANGED <<jobs, lane, remote, http, spent, removed>>

\* Mutant: no look at the flag between the verdict and the import.
NoLastGate ==
    /\ worker.pc = "pipeline"
    /\ Status(Jid, "processing")
    /\ Goto("posting")
    /\ UNCHANGED <<jobs, lane, remote, record, library, http, spent, removed>>

\* The last look at the flag, right before the ManualImport command ...
LastGate ==
    /\ worker.pc = "pipeline"
    /\ ~is_job_cancel_requested(worker.job)
    /\ Status(Jid, "processing")
    /\ Goto("posting")
    /\ UNCHANGED <<jobs, lane, remote, record, library, http, spent, removed>>

\* ... and the command: accepted, refused with an error status, or a request
\* that raises and may have reached Lidarr all the same.
PostImport ==
    /\ worker.pc = "posting"
    /\ \/ /\ \E r \in {"posted", "refused"} : library' = [library EXCEPT ![Jid] = r]
          /\ Goto("waiting")
          /\ UNCHANGED <<proj, record>>
       \/ /\ \E r \in {library[Jid], "posted"} : library' = [library EXCEPT ![Jid] = r]
          /\ ImportRaises
    /\ UNCHANGED <<jobs, lane, remote, http, spent, removed>>

\* Lidarr has imported, has not come to it within the wait, or has refused,
\* in which case the files may still be placed by the rescue.  An import that
\* ends between the last poll and the look at the command is taken for a
\* refusal, and the rescue finds nothing to place.
AwaitImport ==
    /\ worker.pc = "waiting"
    /\ Returns
    /\ \/ /\ library[Jid] = "imported"
          /\ record' = [record EXCEPT ![Jid] = "imported"]
          /\ Project(Jid, "completed", FALSE, TRUE)
          /\ UNCHANGED library
       \/ /\ library[Jid] = "imported"
          /\ record' = [record EXCEPT ![Jid] = "failed"]
          /\ Project(Jid, "failed", FALSE, TRUE)
          /\ UNCHANGED library
       \/ /\ library[Jid] = "posted"
          /\ record' = [record EXCEPT ![Jid] = "pending"]
          /\ UNCHANGED <<proj, library>>
       \/ /\ library[Jid] = "refused"
          /\ \/ /\ ~is_job_cancel_requested(worker.job)
                /\ library' = [library EXCEPT ![Jid] = "imported"]
                /\ record' = [record EXCEPT ![Jid] = "imported"]
                /\ Project(Jid, "completed", FALSE, TRUE)
             \/ /\ record' = [record EXCEPT ![Jid] = "failed"]
                /\ Project(Jid, "failed", FALSE, TRUE)
                /\ UNCHANGED library
    /\ UNCHANGED <<jobs, lane, remote, http, spent, removed>>

_backend_ingest_outcome(j) ==
    IF proj[j].hold \/ proj[j].status = "review_required" THEN "review"
    ELSE IF proj[j].status = "failed" THEN "failed" ELSE "imported"

\* _mirror_backend_ingest_outcome reads the row ...
MirrorReads ==
    /\ worker.pc = "mirror"
    /\ \/ /\ lane[Jid] = "importing"
          /\ worker' = [worker EXCEPT !.pc = "mirroring",
                           !.state = IF worker.raised THEN "failed"
                                     ELSE _backend_ingest_outcome(Jid)]
       \/ lane[Jid] # "importing" /\ Goto("finishing")
    /\ UNCHANGED <<jobs, lane, remote, proj, record, library, http, spent, removed>>

\* ... and writes it, closing the record of an imported release.
MirrorWrites ==
    /\ worker.pc = "mirroring"
    /\ Goto("finishing")
    /\ \/ /\ update_backend_job(Jid, worker.state)
          /\ NoFault
          /\ IF worker.state = "imported" /\ record[Jid] \in {"pending", "imported"}
             THEN /\ record' = [record EXCEPT ![Jid] = "imported"]
                  /\ Project(Jid, "completed", FALSE, TRUE)
             ELSE UNCHANGED <<proj, record>>
       \/ Fault /\ UNCHANGED <<lane, proj, record>>
    /\ UNCHANGED <<jobs, remote, library, http, removed>>

Finish ==
    /\ worker.pc = "finishing"
    /\ MarkJob(worker.job, worker.verdict)
    /\ worker' = WorkerAt("idle")
    /\ UNCHANGED <<lane, remote, proj, record, library, http, spent, removed>>

-----------------------------------------------------------------------------
(* The environment *)

RemoteMoves(j) ==
    /\ \/ remote[j] = "queued" /\ remote' = [remote EXCEPT ![j] = "downloading"]
       \/ /\ remote[j] = "downloading"
          /\ \E r \in {"completed", "failed"} : remote' = [remote EXCEPT ![j] = r]
    /\ UNCHANGED <<jobs, lane, proj, record, library, http, worker, spent, removed>>

LidarrWorks(j) ==
    /\ library[j] = "posted"
    /\ \E r \in {"imported", "refused"} : library' = [library EXCEPT ![j] = r]
    /\ UNCHANGED <<jobs, lane, remote, proj, record, http, worker, spent, removed>>

\* jobs.json is rewritten in place: a crash in mid-write loses it.
Crash ==
    /\ Up
    /\ spent.crashes < MaxCrashes
    /\ spent' = [spent EXCEPT !.crashes = @ + 1]
    /\ worker' = WorkerAt("down")
    /\ Done
    /\ proj' \in {proj, [j \in Jids |-> NoProjection]}
    /\ UNCHANGED <<jobs, lane, remote, record, library, removed>>

\* _load_jobs fails projections that look stale; the worker's recovery takes
\* back the running job.
Boot ==
    /\ ~Up
    /\ \E old \in SUBSET {j \in Jids : proj[j].status \in {"downloading", "processing"}} :
          proj' = [j \in Jids |-> IF j \in old THEN [proj[j] EXCEPT !.status = "failed"]
                                               ELSE proj[j]]
    /\ recover_stale_running_jobs(Running)
    /\ worker' = WorkerAt("idle")
    /\ UNCHANGED <<lane, remote, record, library, http, spent, removed>>

TimePasses ==
    /\ \E i \in JobIds : BecomesDue(i)
    /\ UNCHANGED <<lane, remote, proj, record, library, http, worker, spent, removed>>

-----------------------------------------------------------------------------
\* The rest of a handler that has begun.
Handler == StartIngest \/ EnqueueIngest \/ RevertIngest
           \/ DeleteReads \/ DeleteWrites \/ DiscardLane

Worker == Claim \/ EarlyCheck \/ Checkpoint \/ CopyFails \/ Judge \/ LastGate
          \/ PostImport \/ AwaitImport \/ MirrorReads \/ MirrorWrites \/ Finish

Next ==
    \/ \E j \in Jids : \/ AddUrl(j) \/ Poll(j) \/ RestoreReview(j) \/ SettlePending(j)
                       \/ Delete(j) \/ Discard(j) \/ Expire(j) \/ Promote(j)
                       \/ RemoteMoves(j) \/ LidarrWorks(j)
    \/ \E i \in JobIds : CancelJob(i)
    \/ Handler \/ Worker
    \/ Crash \/ Boot \/ TimePasses

Spec == Init /\ [][Next]_vars

\* A handler runs to its end and the worker is an endless loop with bounded
\* waits; the container is restarted and the clock advances.  Nothing is owed
\* by Lidarr, the backend or the operator.
Fairness == WF_vars(Handler) /\ WF_vars(Worker) /\ WF_vars(Boot) /\ WF_vars(TimePasses)

FairSpec == Spec /\ Fairness

-----------------------------------------------------------------------------
(* Safety *)

\* The type invariant: every place keeps to its own vocabulary, although rows and
\* projections are translated into each other.
TypeOK ==
    /\ JobsTypeOK
    /\ lane \in [Jids -> BACKEND_JOB_STATES \cup {"absent"}]
    /\ remote \in [Jids -> {"none", "queued", "downloading", "completed", "failed", "gone"}]
    /\ proj \in [Jids -> Projection]
    /\ record \in [Jids -> RecordStates]
    /\ library \in [Jids -> {"none", "posted", "imported", "refused"}]
    /\ http.jid \in Jids
    /\ worker.pc \notin {"idle", "down"} => worker.job \in JobIds
    /\ worker.state \in BACKEND_JOB_STATES

\* An ingest job is active only under a row that says importing or later: no
\* failure between the two writes of _start_backend_ingest leaves a job behind
\* that a later poll would start again.
DurableFirst ==
    \A j \in Jids : find_active_job_by_dedupe(j) # {} =>
        lane[j] \notin {"absent", "queued", "downloading", "completed"}

\* Once Lidarr's removal is recorded, no ingest job of the release is active
\* without its cancel flag, however removal, ingest and crashes fell (as long as
\* the database answers: the flag is set on a best-effort basis).
RemovalReachesIngest ==
    spent.faults = 0 =>
        \A j \in removed : \A i \in find_active_job_by_dedupe(j) : jobs[i].cancel

PassesGate(j) == worker.pc = "pipeline" /\ worker'.pc = "posting" /\ Jid = j

\* "The durable cancelled state is what stops the job from being imported": the
\* worker does not pass its last gate before the import while the row says
\* cancelled, by a removal or, while the process stays up, by a discard.
CancelledIsNotImported ==
    [][\A j \in Jids :
          /\ lane[j] = "cancelled" /\ spent.faults = 0
          /\ j \in removed \/ spent.crashes = 0
          => ~PassesGate(j)]_vars

\* A pending review is shown to Lidarr, which would otherwise grab the album
\* again: through restarts and a lost jobs.json once the row says review, and
\* before that while the worker is on its way to write the row, if no second
\* attempt after a crash overruled the record (as long as the database answers).
ReviewStaysVisible ==
    \A j \in Jids :
        /\ spent.faults = 0 /\ record[j] = "review"
        /\ \/ lane[j] = "review"
           \/ /\ lane[j] = "importing" /\ worker.pc \in {"mirror", "mirroring"}
              /\ Jid = j /\ spent.crashes = 0
        => ShownToLidarr(j)

-----------------------------------------------------------------------------
(* Liveness *)

Undisturbed == spent.crashes = 0 /\ spent.cancels = 0 /\ spent.faults = 0

\* "so it never stays stuck in importing": the executor reports every outcome to
\* the row, also one cut short by a removal.  A crash, a cancel from the job page
\* and a swallowed error each can leave a row behind in importing.
IngestSettles ==
    []Undisturbed => \A j \in Jids : lane[j] = "importing" ~> lane[j] # "importing"
=============================================================================
