----------------------------- MODULE ImportFlow -----------------------------
(***************************************************************************)
(* One source-grab job from its claim to its verdict: download, normalise, *)
(* move to the output folder, validate, apply policy, switch the monitored *)
(* release in Lidarr, send the ManualImport command, wait for it, rescue   *)
(* what it refused, undo the switches, clean Lidarr's queue.  The worker   *)
(* thread runs it; beside it the operator may cancel the job, Lidarr works *)
(* through its command queue, and an HTTP request may reconcile an import  *)
(* that was left pending.                                                  *)
(*                                                                         *)
(* The audio files of the release are one unit, in the raw folder, in the  *)
(* output folder or gone (a copy cut short may leave them in both).  The verification record is a file and lives in  *)
(* one of those folders or in an archive folder, so whoever removes the    *)
(* folder removes the record.  Every request to Lidarr may fail, within a  *)
(* budget.  The job's lease is module JobQueue's subject.                  *)
(***************************************************************************)
EXTENDS JobStore

CONSTANTS
    Albums,       \* the Lidarr albums the release's files match
    MaxCancels,   \* bound on cancellations
    MaxCrashes,   \* bound on process crashes
    MaxFailures   \* bound on requests and moves that raise or time out

ASSUME ImportFlowAssumption ==
    /\ \E j \in JobIds : JobIds = {j}
    /\ MaxCancels \in Nat /\ MaxCrashes \in Nat /\ MaxFailures \in Nat

J == CHOOSE j \in JobIds : TRUE
Key == CHOOSE k \in Keys : TRUE
Attempts == 1 .. MaxAttempts[TypeOf[Key]]

VARIABLES
    worker,   \* the worker thread, with the locals of the running pipeline
    http,     \* the HTTP request reconciling a pending import
    disk,     \* which of the two folders hold audio files
    record,   \* the verification record and the folder it is in
    proj,     \* the _jobs projection
    lidarr,   \* Lidarr's side
    config,   \* V2 verification on or off; album already in the library
    spent,    \* how much of each bound is used up
    begun     \* ghost: library mutations begun after the job was cancelled

vars == <<jobs, worker, http, disk, record, proj, lidarr, config, spent, begun>>

Positions == {"down", "idle", "claimed", "download", "normalise", "prepare",
              "entry", "policy", "switch", "gate", "post", "wait",
              "pending", "rescue", "copy", "rescan", "restoring", "cleanup",
              "returned", "raised", "cancelled"}

\* `after' is where a pipeline goes once the releases are restored, `zero'
\* that Lidarr had no candidates, `transient' how its error text reads.
Worker == [pc : Positions, dir : {"out", "raw"}, todo : SUBSET Albums,
           applied : SUBSET Albums, zero : BOOLEAN,
           after : {"cleanup", "returned"}, transient : BOOLEAN]
WorkerAt(pc) == [pc |-> pc, dir |-> "out", todo |-> {}, applied |-> {},
                 zero |-> FALSE, after |-> "cleanup", transient |-> FALSE]

RecordStates == {"none", "review", "blocked", "pending", "imported", "rescued", "failed"}
NoRecord == [state |-> "none", at |-> "none"]

\* `cmd' holds the ManualImport command each attempt sent, `placed' the
\* attempts that copied files into the library, `switched' the albums whose
\* monitored release is not the original one.
Lidarr == [queue : BOOLEAN, cmd : [Attempts -> {"none", "queued", "imported", "refused"}],
           placed : SUBSET Attempts, registered : BOOLEAN, switched : SUBSET Albums]

TypeOK ==
    /\ JobsTypeOK
    /\ worker \in Worker
    /\ http \in {"idle", "counted"}
    /\ disk \in [raw : BOOLEAN, out : BOOLEAN]
    /\ record \in [state : RecordStates, at : {"none", "out", "raw", "archive"}]
    /\ proj \in [status : {"queued", "downloading", "processing",
                           "review_required", "completed", "failed", "lost"},
                 hold : BOOLEAN, hidden : BOOLEAN, dir : {"none", "out", "raw"}]
    /\ lidarr \in Lidarr
    /\ config \in [v2 : BOOLEAN, had : BOOLEAN]
    /\ spent \in [cancels : 0 .. MaxCancels, crashes : 0 .. MaxCrashes,
                  failures : 0 .. MaxFailures]
    /\ begun \in Nat

\* The job Lidarr's grab has queued.
Init ==
    /\ jobs = [j \in JobIds |-> InsertedRow(Key)]
    /\ worker = WorkerAt("idle")
    /\ http = "idle"
    /\ disk = [raw |-> FALSE, out |-> FALSE]
    /\ record = NoRecord
    /\ proj = [status |-> "queued", hold |-> FALSE, hidden |-> FALSE, dir |-> "none"]
    /\ lidarr = [queue |-> TRUE, cmd |-> [a \in Attempts |-> "none"], placed |-> {},
                 registered |-> FALSE, switched |-> {}]
    /\ config \in [v2 : BOOLEAN, had : BOOLEAN]
    /\ spent = [cancels |-> 0, crashes |-> 0, failures |-> 0]
    /\ begun = 0

Attempt == jobs[J].attempts
Imported == \E a \in Attempts : lidarr.cmd[a] = "imported"
Audio == disk[worker.dir]

At(pc) == worker.pc = pc
Goto(pc) == worker' = [worker EXCEPT !.pc = pc]
Failure == spent.failures < MaxFailures /\ spent' = [spent EXCEPT !.failures = @ + 1]
Works == UNCHANGED spent
Mutates == begun' = IF is_job_cancel_requested(J) THEN begun + 1 ELSE begun

-----------------------------------------------------------------------------
(* The record and the projection *)

\* _find_verification_sidecar: the folder the projection names, the output
\* folder, the archives.
Found == record.at \in {"out", "archive", proj.dir} \ {"none"}

\* _maybe_write_v2_sidecar
WriteRecord(s, at) ==
    record' = IF config.v2 THEN [state |-> s, at |-> at] ELSE record

\* What is left of the record when a folder is removed.
Without(at) == IF record.at = at THEN NoRecord ELSE record

\* What a crash in the middle of rewriting jobs.json leaves: no entry at all.
\* Whoever writes to it next makes a new one.
LostProjection == [status |-> "lost", hold |-> FALSE, hidden |-> FALSE, dir |-> "none"]

\* Where the audio is looked for: the output folder unless the entry says else.
OutputDir == IF proj.dir = "none" THEN "out" ELSE proj.dir

Status(s) == proj' = [proj EXCEPT !.status = s]
_mark_import_failed ==
    proj' = [proj EXCEPT !.status = "failed", !.hold = FALSE, !.hidden = TRUE]

_mark_import_completed(dir) ==
    proj' = [proj EXCEPT !.status = "completed", !.hold = FALSE, !.hidden = TRUE,
                         !.dir = dir]

_mark_review_required ==
    proj' = [proj EXCEPT !.status = "review_required", !.hold = TRUE, !.hidden = FALSE,
                         !.dir = "out"]

\* _raise_if_job_cancelled when the flag is up: the projection fails, the raw
\* folder goes if the caller cleans up, and JobCancelled is raised.
Cancel(cleanup) ==
    /\ is_job_cancel_requested(J)
    /\ proj' = [proj EXCEPT !.status = "failed", !.hidden = TRUE]
    /\ disk' = IF cleanup THEN [disk EXCEPT !.raw = FALSE] ELSE disk
    /\ record' = IF cleanup THEN Without("raw") ELSE record
    /\ Goto("cancelled")

\* A failing end of _trigger_lidarr_import: record, projection, then the
\* releases and Lidarr's queue.
Fails(transient) ==
    /\ WriteRecord("failed", worker.dir)
    /\ _mark_import_failed
    /\ worker' = [worker EXCEPT !.pc = "restoring", !.after = "cleanup",
                                !.transient = transient]

\* An exception that import_to_lidarr catches.
ImportRaises ==
    /\ _mark_import_failed
    /\ \E t \in BOOLEAN : worker' = [worker EXCEPT !.pc = "returned", !.transient = t]
    /\ UNCHANGED record

-----------------------------------------------------------------------------
(* The worker takes the job *)

Claim ==
    /\ At("idle")
    /\ dequeue_next_job(J, Types)
    /\ Goto("claimed")
    /\ UNCHANGED <<http, disk, record, proj, lidarr, config, spent, begun>>

Start ==
    /\ At("claimed")
    /\ IF is_job_cancel_requested(J)
       THEN mark_job_cancelled(J) /\ worker' = WorkerAt("idle") /\ UNCHANGED proj
       ELSE Status("downloading") /\ Goto("download") /\ UNCHANGED jobs
    /\ UNCHANGED <<http, disk, record, lidarr, config, spent, begun>>

\* adapter.download_raw, which polls the flag: done, cancelled, or raising.
Download ==
    /\ At("download")
    /\ \/ Cancel(TRUE)
       \/ /\ disk' = [disk EXCEPT !.raw = TRUE]
          /\ Goto("normalise")
          /\ UNCHANGED <<record, proj>>
       \/ /\ Status("failed")
          /\ \E t \in BOOLEAN : worker' = [worker EXCEPT !.pc = "raised", !.transient = t]
          /\ UNCHANGED <<disk, record>>
    /\ UNCHANGED <<jobs, http, lidarr, config, spent, begun>>

\* normalize_audio, between two looks at the flag; the codec and integrity
\* gates may leave no file at all.
Normalise ==
    /\ At("normalise")
    /\ \/ Cancel(TRUE)
       \/ /\ ~is_job_cancel_requested(J)
          /\ Status("processing")
          /\ \E left \in BOOLEAN : disk' = [disk EXCEPT !.raw = left]
          /\ Goto("prepare")
          /\ UNCHANGED record
    /\ UNCHANGED <<jobs, http, lidarr, config, spent, begun>>

\* An exception or a crash cuts the preparation short: in the removal of the
\* old output folder, whose files go one by one and the record among them, or
\* in the move of the raw folder, which may have to copy first.
CutShort ==
    \/ /\ \E left \in BOOLEAN : disk' = [disk EXCEPT !.out = @ /\ left]
       /\ record' \in {record, Without("out")}
    \/ /\ \E raw, out \in BOOLEAN :
             (raw \/ out) /\ disk' = [raw |-> disk.raw /\ raw, out |-> disk.raw /\ out]
       /\ record' \in IF record.at = "raw" THEN {record, [record EXCEPT !.at = "out"]}
                     ELSE {Without("out")}

\* prepare_output_directory: an old output folder is removed with the record
\* in it and the raw folder, with what it holds, takes its place.  When
\* that raises, perhaps half-way, the pipeline goes on in the raw folder.
Prepare ==
    /\ At("prepare")
    /\ \/ Cancel(TRUE) /\ Works
       \/ /\ ~is_job_cancel_requested(J)
          /\ disk' = [raw |-> FALSE, out |-> disk.raw]
          /\ record' = IF record.at = "raw" THEN [record EXCEPT !.at = "out"]
                       ELSE Without("out")
          /\ worker' = [worker EXCEPT !.pc = "entry", !.dir = "out"]
          /\ proj' = [proj EXCEPT !.status = "processing", !.dir = "out"]
          /\ Works
       \/ /\ ~is_job_cancel_requested(J)
          /\ Failure
          /\ CutShort
          /\ worker' = [worker EXCEPT !.pc = "entry", !.dir = "raw"]
          /\ proj' = [proj EXCEPT !.status = "processing", !.dir = "raw"]
    /\ UNCHANGED <<jobs, http, lidarr, config, begun>>

-----------------------------------------------------------------------------
(* Validation and policy *)

\* Entry to _trigger_lidarr_import; without an API key nothing is imported.
Enter ==
    /\ At("entry")
    /\ \/ Cancel(FALSE)
       \/ /\ ~is_job_cancel_requested(J)
          /\ \E pc \in {"policy", "returned"} : Goto(pc)
          /\ UNCHANGED <<disk, record, proj>>
    /\ UNCHANGED <<jobs, http, lidarr, config, spent, begun>>

\* The validator is unavailable or the release is not good enough: the record
\* goes to the archive, the files are removed if they are under the output
\* root, and the grab is blocklisted.
Block ==
    /\ At("policy")
    /\ WriteRecord("blocked", "archive")
    /\ disk' = IF worker.dir = "out" THEN [disk EXCEPT !.out = FALSE] ELSE disk
    /\ proj' = [proj EXCEPT !.status = "failed", !.hidden = TRUE]
    /\ \E t \in BOOLEAN : worker' = [worker EXCEPT !.pc = "cleanup", !.transient = t]
    /\ UNCHANGED <<jobs, http, lidarr, config, spent, begun>>

_create_review_required ==
    /\ At("policy") /\ config.v2
    /\ WriteRecord("review", worker.dir)
    /\ _mark_review_required
    /\ Goto("returned")
    /\ UNCHANGED <<jobs, http, disk, lidarr, config, spent, begun>>

\* The release passes; `albums' are those with a better matching release.
Accept ==
    /\ At("policy")
    /\ \E albums \in SUBSET Albums :
          worker' = [worker EXCEPT !.pc = "switch", !.todo = albums]
    /\ UNCHANGED <<jobs, http, disk, record, proj, lidarr, config, spent, begun>>

\* _maybe_auto_release_switch for one album.  Only a switch that Lidarr
\* confirmed is remembered; one that timed out may have happened.
Switch(a) ==
    /\ At("switch") /\ a \in worker.todo
    /\ \/ /\ lidarr' = [lidarr EXCEPT !.switched = @ \cup {a}]
          /\ worker' = [worker EXCEPT !.todo = @ \ {a}, !.applied = @ \cup {a}]
          /\ Works
       \/ /\ worker' = [worker EXCEPT !.todo = @ \ {a}]
          /\ Works /\ UNCHANGED lidarr
       \/ /\ Failure
          /\ worker' = [worker EXCEPT !.todo = @ \ {a}]
          /\ lidarr' = [lidarr EXCEPT !.switched = @ \cup {a}]
    /\ UNCHANGED <<jobs, http, disk, record, proj, config, begun>>

\* The manual-import candidates: an error status, none, none usable or the
\* wrong album, or a payload to send.
Lookup ==
    /\ At("switch") /\ worker.todo = {}
    /\ \/ \E t \in BOOLEAN : Fails(t) /\ Works
       \/ /\ worker' = [worker EXCEPT !.pc = "rescue", !.zero = TRUE]
          /\ Works /\ UNCHANGED <<record, proj>>
       \/ disk.out /\ Goto("gate") /\ Works /\ UNCHANGED <<record, proj>>
       \/ Failure /\ ImportRaises
    /\ UNCHANGED <<jobs, http, disk, lidarr, config, begun>>

-----------------------------------------------------------------------------
(* The import *)

\* The last gate before the library mutation ...
Gate ==
    /\ At("gate")
    /\ \/ Cancel(FALSE)
       \/ /\ ~is_job_cancel_requested(J)
          /\ Goto("post")
          /\ UNCHANGED <<disk, record, proj>>
    /\ UNCHANGED <<jobs, http, lidarr, config, spent, begun>>

\* ... and the command: accepted, answered with an error status, or a request
\* that raises, perhaps after Lidarr took it.
Post ==
    /\ At("post")
    /\ Mutates
    /\ \/ /\ \E c \in {"queued", "none"} : lidarr' = [lidarr EXCEPT !.cmd[Attempt] = c]
          /\ Goto("wait")
          /\ Works /\ UNCHANGED <<record, proj>>
       \/ /\ Failure
          /\ \E c \in {"queued", "none"} : lidarr' = [lidarr EXCEPT !.cmd[Attempt] = c]
          /\ ImportRaises
    /\ UNCHANGED <<jobs, http, disk, config>>

\* Mutant: the wait ends with success when the command was accepted.
WaitForAcceptance ==
    /\ At("wait")
    /\ IF lidarr.cmd[Attempt] # "none"
       THEN WriteRecord("imported", worker.dir) /\ _mark_import_completed(worker.dir)
            /\ Goto("returned")
       ELSE Goto("pending") /\ UNCHANGED <<record, proj>>
    /\ UNCHANGED <<jobs, http, disk, lidarr, config, spent, begun>>

\* _wait_for_manualimport_progress: Lidarr's trackfiles or its history show
\* the import, or the last poll does not, perhaps because it failed.  A count
\* that failed before the command is taken for 0, so that the files the album
\* had before pass for new ones.
Wait ==
    /\ At("wait")
    /\ \/ /\ \/ Imported /\ Works
             \/ config.had /\ Failure
          /\ WriteRecord("imported", worker.dir)
          /\ _mark_import_completed(worker.dir)
          /\ Goto("returned")
       \/ /\ IF Imported THEN Failure ELSE Works
          /\ Goto("pending") /\ UNCHANGED <<record, proj>>
    /\ UNCHANGED <<jobs, http, disk, lidarr, config, begun>>

\* _lidarr_command_still_pending, asked after the last poll.
CheckPending ==
    /\ At("pending")
    /\ \/ /\ \/ lidarr.cmd[Attempt] = "queued" /\ Works
             \/ lidarr.cmd[Attempt] # "none" /\ Failure
          /\ WriteRecord("pending", worker.dir)
          /\ worker' = [worker EXCEPT !.pc = "restoring", !.after = "returned"]
       \/ /\ lidarr.cmd[Attempt] # "queued" /\ Works
          /\ worker' = [worker EXCEPT !.pc = "rescue", !.zero = FALSE]
          /\ UNCHANGED record
    /\ UNCHANGED <<jobs, http, disk, proj, lidarr, config, begun>>

-----------------------------------------------------------------------------
(* The rescue: the files are copied into the library and Lidarr rescans *)

\* Mutant: the rescue does not look at the flag.
UnguardedRescue ==
    /\ At("rescue")
    /\ \/ Goto("copy") /\ UNCHANGED <<record, proj>>
       \/ Fails(FALSE)
    /\ UNCHANGED <<jobs, http, disk, lidarr, config, spent, begun>>

\* _rescue_place_and_rescan looks at the flag and asks Lidarr for the artist
\* and the album.  Disabled, with nothing to copy, cancelled or raising it
\* fails: both callers swallow every exception, JobCancelled too.
Rescue ==
    /\ At("rescue")
    /\ \/ ~is_job_cancel_requested(J) /\ Goto("copy") /\ UNCHANGED <<record, proj>>
       \/ Fails(FALSE)
    /\ UNCHANGED <<jobs, http, disk, lidarr, config, spent, begun>>

\* Then the files are copied; the flag is not looked at again.
Copy ==
    /\ At("copy")
    /\ \/ /\ IF worker.zero THEN Audio ELSE disk.out
          /\ lidarr' = [lidarr EXCEPT !.placed = @ \cup {Attempt}]
          /\ Mutates
          /\ Goto("rescan")
          /\ UNCHANGED <<record, proj>>
       \/ Fails(FALSE) /\ UNCHANGED <<lidarr, begun>>
    /\ UNCHANGED <<jobs, http, disk, config, spent>>

\* RefreshArtist and the count of the album's trackfiles, which includes those
\* that were there before, be they enough or not.  With no candidates a success leaves neither a
\* record nor a completed projection.
Rescan ==
    /\ At("rescan")
    /\ \E found \in BOOLEAN : lidarr' = [lidarr EXCEPT !.registered = @ \/ found]
    /\ \/ /\ lidarr'.registered \/ config.had
          /\ Goto("returned") /\ Works
          /\ IF worker.zero
             THEN proj' = [proj EXCEPT !.hidden = TRUE] /\ UNCHANGED record
             ELSE WriteRecord("rescued", worker.dir) /\ _mark_import_completed(worker.dir)
       \/ ~lidarr'.registered /\ Fails(FALSE) /\ Works
       \/ Failure /\ Fails(FALSE)
    /\ UNCHANGED <<jobs, http, disk, config, begun>>

-----------------------------------------------------------------------------
(* The end of the pipeline *)

\* Mutant: the releases are left alone when the import is pending.
RestoreUnlessPending ==
    /\ At("restoring")
    /\ \/ /\ worker.after = "cleanup" /\ worker.applied # {}
          /\ \E a \in worker.applied :
                /\ worker' = [worker EXCEPT !.applied = @ \ {a}]
                /\ lidarr' = [lidarr EXCEPT !.switched = @ \ {a}]
       \/ /\ worker.after = "returned" \/ worker.applied = {}
          /\ Goto(worker.after) /\ UNCHANGED lidarr
    /\ UNCHANGED <<jobs, http, disk, record, proj, config, spent, begun>>

\* _restore_release_switches, one album at a time, then on.
Restore ==
    /\ At("restoring")
    /\ \/ \E a \in worker.applied :
             /\ worker' = [worker EXCEPT !.applied = @ \ {a}]
             /\ \/ lidarr' = [lidarr EXCEPT !.switched = @ \ {a}] /\ Works
                \/ UNCHANGED lidarr /\ Failure
       \/ /\ worker.applied = {}
          /\ Goto(worker.after) /\ Works /\ UNCHANGED lidarr
    /\ UNCHANGED <<jobs, http, disk, record, proj, config, begun>>

\* Mutant: removeFromClient=true makes Lidarr have the files deleted.
CleanClientToo ==
    /\ At("cleanup")
    /\ lidarr' = [lidarr EXCEPT !.queue = FALSE]
    /\ proj' = [proj EXCEPT !.hidden = TRUE]
    /\ disk' = [disk EXCEPT !.out = FALSE]
    /\ Goto("returned")
    /\ UNCHANGED <<jobs, http, record, config, spent, begun>>

_cleanup_lidarr_queue ==
    /\ At("cleanup")
    /\ \/ /\ lidarr' = [lidarr EXCEPT !.queue = FALSE]
          /\ proj' = [proj EXCEPT !.hidden = TRUE]
          /\ Works
       \/ Failure /\ UNCHANGED <<lidarr, proj>>
    /\ Goto("returned")
    /\ UNCHANGED <<jobs, http, disk, record, config, begun>>

\* _source_grab_terminal_result: a record makes the job a completed one, else
\* a failed projection makes it raise.
Return ==
    /\ At("returned")
    /\ IF Found \/ proj.status # "failed"
       THEN mark_job_completed(J) /\ worker' = WorkerAt("idle")
       ELSE Goto("raised") /\ UNCHANGED jobs
    /\ UNCHANGED <<http, disk, record, proj, lidarr, config, spent, begun>>

\* Mutant: an error text marked permanent is taken for a transient one.
RetryAnyFailure ==
    /\ At("raised")
    /\ IF CanRetry(J) THEN schedule_job_retry(J) ELSE mark_job_failed(J)
    /\ worker' = WorkerAt("idle")
    /\ UNCHANGED <<http, disk, record, proj, lidarr, config, spent, begun>>

\* The worker's verdict on an exception.
Raise ==
    /\ At("raised")
    /\ IF worker.transient /\ CanRetry(J)
       THEN schedule_job_retry(J) ELSE mark_job_failed(J)
    /\ worker' = WorkerAt("idle")
    /\ UNCHANGED <<http, disk, record, proj, lidarr, config, spent, begun>>

Cancelled ==
    /\ At("cancelled")
    /\ mark_job_cancelled(J)
    /\ worker' = WorkerAt("idle")
    /\ UNCHANGED <<http, disk, record, proj, lidarr, config, spent, begun>>

-----------------------------------------------------------------------------
(* Beside the worker *)

RequestCancel ==
    /\ ~At("down") /\ spent.cancels < MaxCancels
    /\ request_job_cancel(J)
    /\ spent' = [spent EXCEPT !.cancels = @ + 1]
    /\ UNCHANGED <<worker, http, disk, record, proj, lidarr, config, begun>>

\* Lidarr comes to a queued command: it moves the files, or refuses them.
LidarrRuns(a) ==
    /\ lidarr.cmd[a] = "queued"
    /\ \/ /\ disk.out
          /\ disk' = [disk EXCEPT !.out = FALSE]
          /\ lidarr' = [lidarr EXCEPT !.cmd[a] = "imported"]
       \/ /\ lidarr' = [lidarr EXCEPT !.cmd[a] = "refused"]
          /\ UNCHANGED disk
    /\ UNCHANGED <<jobs, worker, http, record, proj, config, spent, begun>>

\* _reconcile_pending_import: first the evidence of an import ...
Reconcile ==
    /\ ~At("down") /\ http = "idle"
    /\ record.state = "pending" /\ Found
    /\ LET evidence == (Imported \/ config.had) /\ ~disk[OutputDir]
       IN  \/ /\ evidence /\ Works
              /\ record' = [record EXCEPT !.state = "imported"]
              /\ _mark_import_completed(OutputDir)
              /\ UNCHANGED http
           \/ /\ IF evidence THEN Failure ELSE Works
              /\ http' = "counted" /\ UNCHANGED <<record, proj>>
    /\ UNCHANGED <<jobs, worker, disk, lidarr, config, begun>>

\* ... then, if there is none, whether Lidarr still has the command.
ReconcileGone ==
    /\ ~At("down") /\ http = "counted"
    /\ http' = "idle"
    /\ IF \E a \in Attempts : lidarr.cmd[a] = "queued"
       THEN UNCHANGED <<record, proj, lidarr>>
       ELSE /\ record' = [record EXCEPT !.state = "failed"]
            /\ _mark_import_failed
            /\ lidarr' = [lidarr EXCEPT !.queue = FALSE]
    /\ UNCHANGED <<jobs, worker, disk, config, spent, begun>>

\* A crash may cut short the preparation under way, or the writing of jobs.json.
Crash ==
    /\ ~At("down") /\ spent.crashes < MaxCrashes
    /\ worker' = WorkerAt("down")
    /\ http' = "idle"
    /\ spent' = [spent EXCEPT !.crashes = @ + 1]
    /\ proj' \in {proj, LostProjection}
    /\ \/ UNCHANGED <<disk, record>>
       \/ At("prepare") /\ CutShort
    /\ UNCHANGED <<jobs, lidarr, config, begun>>

\* Boot: _load_jobs fails projections that have been active for too long, and
\* start_worker recovers the job.
Boot ==
    /\ At("down")
    /\ recover_stale_running_jobs(Running)
    /\ worker' = WorkerAt("idle")
    /\ \/ UNCHANGED proj
       \/ proj.status \in {"queued", "downloading", "processing"} /\ Status("failed")
    /\ UNCHANGED <<http, disk, record, lidarr, config, spent, begun>>

RetryFallsDue ==
    /\ BecomesDue(J)
    /\ UNCHANGED <<worker, http, disk, record, proj, lidarr, config, spent, begun>>

Pipeline ==
    \/ Claim \/ Start \/ Download \/ Normalise \/ Prepare \/ Enter
    \/ Block \/ _create_review_required \/ Accept \/ (\E a \in Albums : Switch(a))
    \/ Lookup \/ Gate \/ Post \/ Wait \/ CheckPending \/ Rescue \/ Copy \/ Rescan
    \/ Restore \/ _cleanup_lidarr_queue \/ Return \/ Raise \/ Cancelled

Next ==
    \/ Pipeline
    \/ RequestCancel \/ Reconcile \/ ReconcileGone
    \/ \E a \in Attempts : LidarrRuns(a)
    \/ Crash \/ Boot \/ RetryFallsDue

Spec == Init /\ [][Next]_vars

-----------------------------------------------------------------------------
(* Properties *)

Settled == IsTerminal(J) /\ At("idle")
Unharmed == spent.crashes = 0 /\ spent.failures = 0

\* Once the job is asked to cancel, at most one library mutation begins, the
\* one whose check had already passed: a command under way is not followed by
\* a rescue.  And a job that ends as cancelled has touched nothing in its
\* last attempt (server.py 5163-5168, "honor cancel ... right before each
\* library-mutating step"; pipeline.py 426-429).
CancelStopsImport ==
    /\ begun <= 1
    /\ (jobs[J].state = "cancelled" /\ Attempt > 0) =>
           lidarr.cmd[Attempt] = "none" /\ Attempt \notin lidarr.placed

\* A job that ends, in whatever way but by cancellation, without reporting
\* the release as imported or rescued leaves every album on the release it had:
\* the switches are undone on each failing path and when the import is left
\* pending (server.py 5643-5647).
ReleaseRestored ==
    (Settled /\ Unharmed /\ jobs[J].state # "cancelled" /\ lidarr.switched # {})
        => \/ proj.status = "completed"
           \/ proj.status = "processing" /\ Attempt \in lidarr.placed

\* What is reported as in the library is there: a completed projection and an
\* imported record stand for files that Lidarr imported or that were placed
\* and counted, through crashes, failed requests and late imports.  Of an album
\* that had files before, which may be counted for new ones, nothing is said.
SuccessIsReal ==
    /\ (record.state = "imported" /\ ~config.had) => Imported
    /\ record.state = "rescued" => lidarr.registered \/ config.had
    /\ (proj.status = "completed" /\ ~config.had) => Imported \/ lidarr.registered

\* Without a crash or a failed request a release is sent to Lidarr once: the
\* error texts of an import that was tried are permanent, and a record ends
\* the job (worker.py 110-132).
OneCommand ==
    LET sent == {a \in Attempts : lidarr.cmd[a] # "none"} \cup lidarr.placed
    IN  Unharmed => \A a, b \in sent : a = b

\* As long as a record stands that can be promoted or retried, the files next
\* to it are removed by nobody but Lidarr's import (server.py 5165, 6218-6221),
\* or by a next attempt's preparation that an exception or a crash cuts short
\* between the files and the record (pipeline.py 372-378).
FilesStayWithRecord ==
    [][(/\ record.state \in {"review", "pending", "failed"}
        /\ record.at = "out" /\ record' = record /\ disk.out)
           => \/ disk'.out
              \/ \E a \in Attempts : lidarr'.cmd[a] # lidarr.cmd[a]
              \/ At("prepare") /\ spent' # spent]_vars

\* A record whose import outcome is FAILED stands for a release that Lidarr
\* did not import (docs/specs/SIDECAR_FORMAT_v2.md:135).
FailedMeansNotImported ==
    (record.state = "failed" /\ Settled /\ Unharmed) => ~Imported
=============================================================================
