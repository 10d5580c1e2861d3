---------------------------- MODULE LibraryScan ----------------------------
(***************************************************************************)
(* The background library scan: app/library_scan_worker.py and its         *)
(* scheduler over two tables, library_scan_runs and the shared jobs table. *)
(*                                                                         *)
(* A scan is a run row and a backing job row, written in separate steps by *)
(* four actors: the scan thread, HTTP handlers (one at a time), the        *)
(* scheduler, and the import worker, whose lease recovery also sweeps the  *)
(* scan's job.  The import worker itself is module JobQueue; here it only  *)
(* claims and settles.  The functions of state_db hold its lock, but their *)
(* statements commit one by one: a crash or a database error may part the  *)
(* three that create a scan.  A database error is logged and swallowed by  *)
(* whoever meets it; only so many happen.                                  *)
(*                                                                         *)
(* Two writes of one thread to different tables are one step when nothing  *)
(* another actor does in between can tell; the pairs that matter (the end  *)
(* of a scan, the two halves of a cancellation) are separate.  Track files *)
(* are counted, not named: the per-run item ledger is only read back when  *)
(* a run is executed twice, and max_attempts = 1 means none ever is.       *)
(***************************************************************************)
EXTENDS JobStore

CONSTANTS
    RunIds,      \* ids the run table may use
    Modes,       \* scan modes; every mode but "spectral_missing" is a tier
    Workers,     \* threads of a tier scan
    MaxItems,    \* bound on the track files Lidarr reports
    MaxFaults,   \* bound on crashes and swallowed database errors together
    ScanKey,     \* LIBRARY_SCAN_DEDUPE_KEY
    ScanType     \* LIBRARY_SCAN_JOB_TYPE

ASSUME LibraryScanAssumption ==
    /\ RunIds \subseteq Nat \ {0} /\ JobIds \subseteq Nat \ {0}
    /\ {"metadata", "spectral_missing"} \subseteq Modes
    /\ Workers \in Nat \ {0}
    /\ MaxItems \in Nat /\ MaxFaults \in Nat
    /\ ScanKey \in Keys /\ TypeOf[ScanKey] = ScanType
    /\ \A k \in Keys \ {ScanKey} : TypeOf[k] # ScanType
    /\ MaxAttempts[ScanType] = 1

VARIABLES
    runs,       \* the library_scan_runs table
    payload,    \* the run a scan's job names in its payload, 0 in other jobs
    scan,       \* the scan thread
    importing,  \* the job the import worker executes, 0 when it is idle
    halfway,    \* the job a cancel request has yet to flag, 0 when none
    clear,      \* the scheduler has found the queue quiet and is about to queue
    crashes,
    faults,
    late,       \* ghost: measurements begun since the import queue became busy
    extra       \* ghost: measurements begun since the job's cancel flag went up

vars == <<jobs, runs, payload, scan, importing, halfway, clear, crashes, faults,
          late, extra>>

ActiveScanStates == {"queued", "running", "cancelling"}
TerminalScanStates == {"completed", "failed", "cancelled"}

\* `job' is worker_job_id, 0 for NULL.
Run == [state  : ActiveScanStates \cup TerminalScanStates \cup {"absent"},
        mode   : Modes,
        job    : Nat,
        cancel : BOOLEAN,
        total  : Nat,
        processed : Nat]

AbsentRun == [state |-> "absent", mode |-> "spectral_missing", job |-> 0,
              cancel |-> FALSE, total |-> 0, processed |-> 0]

ActiveRuns == {r \in RunIds : runs[r].state \in ActiveScanStates}
ImportTypes == Types \ {ScanType}

\* _is_import_work_active, and the scheduler's copy of it
ImportActive == count_active_jobs(ImportTypes) # {}

\* The thread's positions: "boot" is _scan_loop before its reconciliation,
\* "idle" its polling loop, the others are points of _execute_library_scan_job.
\* A tier scan hands items to a pool: `flying' are being measured, `ready' are
\* measured futures, `batch' the ready ones the thread is tallying.
Positions == {"down", "boot", "idle", "claimed", "begin", "fetch", "check",
              "quiet", "take", "requiet", "lease", "measure", "wait", "tally",
              "drain", "ending", "marking"}

Scan == [pc : Positions, job : Nat, run : Nat, next : Nat, flying : Nat,
         ready : Nat, batch : Nat, total : Nat, counted : Nat,
         outcome : TerminalScanStates \cup {"none"}]

At(pc) == [pc |-> pc, job |-> 0, run |-> 0, next |-> 0, flying |-> 0,
           ready |-> 0, batch |-> 0, total |-> 0, counted |-> 0, outcome |-> "none"]

Executing == scan.pc \notin {"down", "boot", "idle"}

Init ==
    /\ JobsInit
    /\ runs = [r \in RunIds |-> AbsentRun]
    /\ payload = [j \in JobIds |-> 0]
    /\ scan = At("down")
    /\ importing = 0 /\ halfway = 0 /\ clear = FALSE
    /\ crashes = 0 /\ faults = 0 /\ late = 0 /\ extra = 0

Goto(pc) == scan' = [scan EXCEPT !.pc = pc]
Ending(s) == scan' = [scan EXCEPT !.pc = "ending", !.outcome = s]

\* A statement takes effect, or raises and is lost.
Written == UNCHANGED faults
Fault == crashes + faults < MaxFaults /\ faults' = faults + 1

update_library_scan_run_state(r, s) ==
    \/ runs' = [runs EXCEPT ![r].state = s] /\ Written
    \/ UNCHANGED runs /\ Fault

\* The same with totals=counters.
UpdateTotals(r, s, total, processed) ==
    \/ /\ runs' = [runs EXCEPT ![r].state = s, ![r].total = total,
                               ![r].processed = processed]
       /\ Written
    \/ UNCHANGED runs /\ Fault

-----------------------------------------------------------------------------
(* Starting a scan *)

\* Mutant: a state the schema does not know.
PendingRun(m, j) == [AbsentRun EXCEPT !.state = "pending", !.mode = m, !.job = j]

NewRun(m, j) == [AbsentRun EXCEPT !.state = "queued", !.mode = m, !.job = j]

\* The statements that create a scan, up to the given one: INSERT the run,
\* INSERT its job, UPDATE the run's worker_job_id.
CreateScan(m, done) ==
    \E r \in RunIds, j \in JobIds :
       /\ runs[r].state = "absent" /\ \A q \in RunIds : q < r => runs[q].state # "absent"
       /\ IsNextId(j)
       /\ runs' = [runs EXCEPT ![r] = NewRun(m, IF done = 3 THEN j ELSE 0)]
       /\ IF done = 1 THEN UNCHANGED <<jobs, payload>>
          ELSE /\ jobs' = [jobs EXCEPT ![j] = InsertedRow(ScanKey)]
               /\ payload' = [payload EXCEPT ![j] = r]

\* All three, or an error after the first or the second.
CreateOrFail(m) ==
    \/ CreateScan(m, 3) /\ Written
    \/ Fault /\ \E done \in {1, 2} : CreateScan(m, done)

\* Mutant: the dedupe key of the jobs table is checked instead of the runs.
EnqueueByDedupe(m) ==
    /\ find_active_job_by_dedupe(ScanKey) = {}
    /\ CreateOrFail(m)

\* Refused while a run is active, else a run and its job.  The jobs table is
\* not consulted.
enqueue_library_scan(m) ==
    /\ ActiveRuns = {}
    /\ CreateOrFail(m)

\* POST /library/scan
StartScan(m) ==
    /\ scan.pc # "down" /\ halfway = 0
    /\ enqueue_library_scan(m)
    /\ UNCHANGED <<scan, importing, halfway, clear, crashes, late, extra>>

\* The scheduler reads the two tables, then queues a metadata scan.
SchedulerLooks ==
    /\ scan.pc # "down" /\ ~clear
    /\ ~ImportActive
    /\ ActiveRuns = {}
    /\ clear' = TRUE
    /\ UNCHANGED <<jobs, runs, payload, scan, importing, halfway, crashes, faults, late,
                   extra>>

SchedulerQueues ==
    /\ clear
    /\ clear' = FALSE
    /\ \/ enqueue_library_scan("metadata")
       \/ ActiveRuns # {} /\ UNCHANGED <<jobs, runs, payload, faults>>
    /\ UNCHANGED <<scan, importing, halfway, crashes, late, extra>>

-----------------------------------------------------------------------------
(* Cancelling a scan *)

CancelledRun(r) == [r EXCEPT !.cancel = TRUE,
                             !.state = IF r.state = "running" THEN "cancelling"
                                       ELSE r.state]

\* Mutant: a run that has ended can be cancelled too.
CancelAnyRun(r) ==
    /\ scan.pc # "down" /\ halfway = 0
    /\ runs[r].state # "absent"
    /\ runs' = [runs EXCEPT ![r] = CancelledRun(runs[r])]
    /\ halfway' = runs[r].job
    /\ UNCHANGED <<jobs, scan, importing, clear, crashes, payload, faults, late, extra>>

\* request_library_scan_cancel: the run in one transaction ...
CancelRun(r) ==
    /\ scan.pc # "down" /\ halfway = 0
    /\ r \in ActiveRuns
    /\ runs' = [runs EXCEPT ![r] = CancelledRun(runs[r])]
    /\ halfway' = runs[r].job
    /\ UNCHANGED <<jobs, scan, importing, clear, crashes, payload, faults, late, extra>>

\* ... and the job, if it has one, in another, which does nothing to a job that
\* has ended.
CancelItsJob ==
    /\ halfway # 0
    /\ halfway' = 0
    /\ \/ request_job_cancel(halfway) /\ Written
       \/ ~IsActive(halfway) /\ UNCHANGED jobs /\ Written
       \/ UNCHANGED jobs /\ Fault
    /\ UNCHANGED <<runs, scan, importing, clear, crashes, payload, late, extra>>

\* The dashboard's job page cancels any job, without touching a run.
CancelJob(j) ==
    /\ scan.pc # "down" /\ halfway = 0
    /\ request_job_cancel(j)
    /\ UNCHANGED <<runs, scan, importing, halfway, clear, crashes, payload, faults, late, extra>>

-----------------------------------------------------------------------------
(* The import worker and its queue *)

EnqueueImport(k) ==
    /\ scan.pc # "down" /\ halfway = 0
    /\ k # ScanKey
    /\ \E j \in JobIds : enqueue_job(k, j)
    /\ late' = IF ImportActive THEN late ELSE 0
    /\ UNCHANGED <<runs, scan, importing, halfway, clear, crashes, payload, faults, extra>>

ImportClaims ==
    /\ scan.pc # "down" /\ importing = 0
    /\ \E j \in JobIds : dequeue_next_job(j, ImportTypes) /\ importing' = j
    /\ UNCHANGED <<runs, scan, halfway, clear, crashes, payload, faults, late, extra>>

ImportSettles ==
    /\ importing # 0
    /\ importing' = 0
    /\ \/ mark_job_completed(importing)
       \/ mark_job_failed(importing)
       \/ is_job_cancel_requested(importing) /\ mark_job_cancelled(importing)
       \/ schedule_job_retry(importing)
    /\ UNCHANGED <<runs, scan, halfway, clear, crashes, payload, faults, late, extra>>

\* Between two import jobs, the import worker recovers every expired lease.
ImportWorkerRecovers ==
    /\ scan.pc # "down" /\ importing = 0
    /\ recover_stale_running_jobs(Expired)
    /\ UNCHANGED <<runs, scan, importing, halfway, clear, crashes, payload, faults, late, extra>>

-----------------------------------------------------------------------------
(* Boot, reconciliation and the polling loop *)

\* The import worker starts first and recovers synchronously; then the scan
\* thread is started.
Boot ==
    /\ scan.pc = "down"
    /\ recover_stale_running_jobs(Running)
    /\ scan' = At("boot")
    /\ UNCHANGED <<runs, importing, halfway, clear, crashes, payload, faults, late, extra>>

\* A run without a job id, or whose job has ended.
Orphaned(r) ==
    /\ runs[r].state \in ActiveScanStates
    /\ runs[r].job = 0 \/ IsTerminal(runs[r].job)

reconcile_orphaned_library_scan_runs ==
    \/ /\ runs' = [r \in RunIds |-> IF Orphaned(r) THEN [runs[r] EXCEPT !.state = "failed"]
                                   ELSE runs[r]]
       /\ Written
    \/ UNCHANGED runs /\ Fault

Reconcile ==
    /\ scan.pc = "boot"
    /\ reconcile_orphaned_library_scan_runs
    /\ Goto("idle")
    /\ UNCHANGED <<jobs, importing, halfway, clear, crashes, payload, late, extra>>

\* The job is claimed and names its run, whatever has become of that.
Claim ==
    /\ scan.pc = "idle"
    /\ \E j \in JobIds :
          /\ dequeue_next_job(j, {ScanType})
          /\ scan' = [At("claimed") EXCEPT !.job = j, !.run = payload[j]]
    /\ extra' = 0
    /\ UNCHANGED <<runs, importing, halfway, clear, crashes, payload, faults, late>>

-----------------------------------------------------------------------------
(* _execute_library_scan_job *)

\* The early check; a run cancelled before its start goes straight to its end.
EarlyCheck ==
    /\ scan.pc = "claimed"
    /\ IF is_job_cancel_requested(scan.job) THEN Ending("cancelled")
                                            ELSE Goto("begin")
    /\ UNCHANGED <<jobs, runs, importing, halfway, clear, crashes, payload, faults, late, extra>>

\* Run running and first heartbeat, unless background spectral is disabled.
Begin ==
    /\ scan.pc = "begin"
    /\ \/ /\ update_library_scan_run_state(scan.run, "running")
          /\ heartbeat_job(scan.job)
          /\ Goto("fetch")
       \/ /\ runs[scan.run].mode = "spectral_missing"
          /\ Ending("failed")
          /\ UNCHANGED <<jobs, runs, faults>>
    /\ UNCHANGED <<importing, halfway, clear, crashes, payload, late, extra>>

\* Mutant: the scan ends when the last item was handed to the pool.
ContinueWithoutPool(s) ==
    IF s.next < s.total /\ s.flying + s.ready < Workers THEN [s EXCEPT !.pc = "check"]
    ELSE IF s.next < s.total THEN [s EXCEPT !.pc = "wait"]
    ELSE [s EXCEPT !.pc = "ending", !.outcome = "completed"]

\* Where the item loops go next: another item, the pool, or the end.
Continue(s) ==
    LET held == s.flying + s.ready IN
    IF s.next < s.total /\ held < Workers THEN [s EXCEPT !.pc = "check"]
    ELSE IF held > 0 THEN [s EXCEPT !.pc = "wait"]
    ELSE [s EXCEPT !.pc = "ending", !.outcome = "completed"]

\* _fetch_lidarr_trackfiles: minutes of API calls without a heartbeat.
Fetch ==
    /\ scan.pc = "fetch"
    /\ \/ \E n \in 0..MaxItems :
             /\ UpdateTotals(scan.run, "running", n, scan.counted)
             /\ scan' = Continue([scan EXCEPT !.total = n])
       \/ Ending("failed") /\ UNCHANGED <<runs, faults>>
    /\ UNCHANGED <<jobs, importing, halfway, clear, crashes, payload, late, extra>>

\* _raise_if_cancelled raising: the run is written, the pool is drained.
RaiseCancelled ==
    /\ update_library_scan_run_state(scan.run, "cancelling")
    /\ Goto("drain")

\* Mutant: cancellation is only looked for before the first item.
CheckCancelOnce ==
    /\ scan.pc = "check"
    /\ \/ scan.next = 0 /\ is_job_cancel_requested(scan.job) /\ RaiseCancelled
       \/ /\ scan.next > 0 \/ ~is_job_cancel_requested(scan.job)
          /\ Goto("quiet") /\ UNCHANGED <<runs, faults>>
    /\ UNCHANGED <<jobs, importing, halfway, clear, crashes, payload, late, extra>>

CheckCancel ==
    /\ scan.pc = "check"
    /\ \/ is_job_cancel_requested(scan.job) /\ RaiseCancelled
       \/ ~is_job_cancel_requested(scan.job) /\ Goto("quiet") /\ UNCHANGED <<runs, faults>>
    /\ UNCHANGED <<jobs, importing, halfway, clear, crashes, payload, late, extra>>

\* One turn of _wait_for_import_quiet before an item is taken.
WaitQuiet ==
    /\ scan.pc = "quiet"
    /\ \/ ~ImportActive /\ Goto("take") /\ UNCHANGED <<jobs, runs, faults>>
       \/ /\ ImportActive /\ is_job_cancel_requested(scan.job)
          /\ RaiseCancelled
          /\ UNCHANGED jobs
       \/ /\ ImportActive /\ ~is_job_cancel_requested(scan.job)
          /\ heartbeat_job(scan.job)
          /\ UNCHANGED <<runs, scan, faults>>
    /\ UNCHANGED <<importing, halfway, clear, crashes, payload, late, extra>>

\* A measurement begins: the ghosts count it.
Measuring ==
    /\ late' = IF ImportActive THEN late + 1 ELSE 0
    /\ extra' = IF is_job_cancel_requested(scan.job) THEN extra + 1 ELSE 0

Spectral == runs[scan.run].mode = "spectral_missing"
Taken == [scan EXCEPT !.next = @ + 1]
Counted == [Taken EXCEPT !.counted = @ + 1]

\* _update_scan_progress: the run is "running" again and the lease is renewed.
Progress(n) ==
    /\ UpdateTotals(scan.run, "running", scan.total, n)
    /\ heartbeat_job(scan.job)

\* The next track file.  One without an id is only counted; a spectral one
\* waits for the imports once more; a tier one is submitted to the pool.
TakeItem ==
    /\ scan.pc = "take"
    /\ \/ /\ scan' = Continue(Counted)
          /\ IF Spectral THEN UNCHANGED <<jobs, runs, faults>>
             ELSE Progress(scan.counted + 1)
          /\ UNCHANGED <<late, extra>>
       \/ /\ Spectral
          /\ scan' = [Taken EXCEPT !.pc = "requiet"]
          /\ UNCHANGED <<jobs, runs, faults, late, extra>>
       \/ /\ ~Spectral
          /\ scan' = Continue([Taken EXCEPT !.flying = @ + 1])
          /\ Measuring
          /\ UNCHANGED <<jobs, runs, faults>>
    /\ UNCHANGED <<importing, halfway, clear, crashes, payload>>

\* The second wait is inside the item's try block: a cancellation raised here
\* is caught by its `except Exception' and counted as a failed item.
WaitQuietAgain ==
    /\ scan.pc = "requiet"
    /\ \/ ~ImportActive /\ Goto("lease") /\ UNCHANGED <<jobs, runs, faults>>
       \/ /\ ImportActive /\ is_job_cancel_requested(scan.job)
          /\ update_library_scan_run_state(scan.run, "cancelling")
          /\ scan' = [scan EXCEPT !.pc = "tally", !.batch = 1]
          /\ UNCHANGED jobs
       \/ /\ ImportActive /\ ~is_job_cancel_requested(scan.job)
          /\ heartbeat_job(scan.job)
          /\ UNCHANGED <<runs, scan, faults>>
    /\ UNCHANGED <<importing, halfway, clear, crashes, payload, late, extra>>

\* The long lease, then the FLAC Detective request.
Lease ==
    /\ scan.pc = "lease"
    /\ heartbeat_job(scan.job)
    /\ Goto("measure")
    /\ Measuring
    /\ UNCHANGED <<runs, importing, halfway, clear, crashes, payload, faults>>

MeasureSpectral ==
    /\ scan.pc = "measure"
    /\ scan' = [scan EXCEPT !.pc = "tally", !.batch = 1]
    /\ UNCHANGED <<jobs, runs, importing, halfway, clear, crashes, payload, faults, late, extra>>

\* A pool thread finishes its item, with a result or an exception.
PoolFinishes ==
    /\ scan.flying > 0
    /\ scan' = [scan EXCEPT !.flying = @ - 1, !.ready = @ + 1]
    /\ UNCHANGED <<jobs, runs, importing, halfway, clear, crashes, payload, faults, late, extra>>

\* wait(..., timeout=1.0): a batch of ready futures, or a heartbeat and a
\* cancel check.
WaitForPool ==
    /\ scan.pc = "wait"
    /\ \/ /\ scan.ready > 0
          /\ scan' = [scan EXCEPT !.pc = "tally", !.batch = scan.ready, !.ready = 0]
          /\ UNCHANGED <<jobs, runs, faults>>
       \/ /\ scan.ready = 0
          /\ heartbeat_job(scan.job)
          /\ \/ is_job_cancel_requested(scan.job) /\ RaiseCancelled
             \/ /\ ~is_job_cancel_requested(scan.job)
                /\ scan' = Continue(scan)
                /\ UNCHANGED <<runs, faults>>
    /\ UNCHANGED <<importing, halfway, clear, crashes, payload, late, extra>>

\* One measured item is counted, whatever came of it.
Tally ==
    /\ scan.pc = "tally"
    /\ LET s == [scan EXCEPT !.batch = @ - 1, !.counted = @ + 1]
       IN  scan' = IF s.batch > 0 THEN s ELSE Continue(s)
    /\ Progress(scan.counted + 1)
    /\ UNCHANGED <<importing, halfway, clear, crashes, payload, late, extra>>

\* Leaving the pool's context manager waits for the items in flight; their
\* results are dropped.
Drain ==
    /\ scan.pc = "drain"
    /\ scan.flying = 0
    /\ Ending("cancelled")
    /\ UNCHANGED <<jobs, runs, importing, halfway, clear, crashes, payload, faults, late, extra>>

\* The two terminal writes: first the run ...
EndRun ==
    /\ scan.pc = "ending"
    /\ UpdateTotals(scan.run, scan.outcome, scan.total, scan.counted)
    /\ Goto("marking")
    /\ UNCHANGED <<jobs, importing, halfway, clear, crashes, payload, late, extra>>

\* ... then the job.
EndJob ==
    /\ scan.pc = "marking"
    /\ \/ MarkJob(scan.job, scan.outcome) /\ Written
       \/ UNCHANGED jobs /\ Fault
    /\ scan' = At("idle")
    /\ UNCHANGED <<runs, importing, halfway, clear, crashes, payload, late, extra>>

-----------------------------------------------------------------------------
(* The environment *)

\* A crash, perhaps while a request or the scheduler is creating a scan.
Crash ==
    /\ scan.pc # "down"
    /\ crashes + faults < MaxFaults
    /\ crashes' = crashes + 1
    /\ scan' = At("down")
    /\ importing' = 0 /\ halfway' = 0 /\ clear' = FALSE
    /\ \/ UNCHANGED <<jobs, runs, payload>>
       \/ /\ ActiveRuns = {}
          /\ \E m \in Modes, done \in {1, 2} : CreateScan(m, done)
    /\ UNCHANGED <<faults, late, extra>>

\* The import worker's heartbeat thread and the scan's own heartbeats keep a
\* lease from running out while a job is executed, except in the inventory
\* fetch, which sends none.
TimePasses ==
    /\ \E j \in JobIds :
          \/ /\ LeaseRunsOut(j)
             /\ j # importing
             /\ Executing /\ scan.job = j => scan.pc = "fetch"
          \/ BecomesDue(j)
    /\ UNCHANGED <<runs, scan, importing, halfway, clear, crashes, payload, faults, late, extra>>

-----------------------------------------------------------------------------
ScanThread ==
    \/ Reconcile \/ Claim \/ EarlyCheck \/ Begin \/ Fetch \/ CheckCancel
    \/ WaitQuiet \/ TakeItem \/ WaitQuietAgain \/ Lease \/ MeasureSpectral
    \/ WaitForPool \/ Tally \/ Drain \/ EndRun \/ EndJob

ImportWorker == ImportClaims \/ ImportSettles

Next ==
    \/ \E m \in Modes : StartScan(m)
    \/ SchedulerLooks \/ SchedulerQueues
    \/ \E r \in RunIds : CancelRun(r)
    \/ CancelItsJob
    \/ \E j \in JobIds : CancelJob(j)
    \/ \E k \in Keys : EnqueueImport(k)
    \/ ImportWorker \/ ImportWorkerRecovers
    \/ Boot \/ ScanThread \/ PoolFinishes
    \/ Crash \/ TimePasses

Spec == Init /\ [][Next]_vars

-----------------------------------------------------------------------------
(* Safety *)

\* The type invariant: the two tables keep to their columns' values, and a thread
\* that executes holds a job and the run it names, which is backed by no other.
TypeOK ==
    /\ JobsTypeOK
    /\ runs \in [RunIds -> Run]
    /\ payload \in [JobIds -> RunIds \cup {0}]
    /\ scan \in Scan
    /\ Executing => /\ scan.job \in JobIds /\ scan.run \in RunIds
                    /\ payload[scan.job] = scan.run
                    /\ runs[scan.run].job \in {0, scan.job}
    /\ importing \in JobIds \cup {0} /\ halfway \in JobIds \cup {0}
    /\ clear \in BOOLEAN
    /\ crashes \in Nat /\ faults \in Nat /\ late \in Nat /\ extra \in Nat

\* A run whose creation was cut short before its last statement never learns
\* its job's id.
Linked(r) == runs[r].job # 0

\* At most one run is active, although the thread writes its run's state
\* without looking at it and a new run only checks the run table.
OneActiveRun == \A r, q \in ActiveRuns : Linked(r) /\ Linked(q) => r = q

\* Until the thread's own terminal write its run stays active, even when
\* recovery has failed the backing job under it: no second scan is queued
\* beside a live one.
ScannedRunIsActive ==
    Executing /\ scan.pc # "marking" /\ Linked(scan.run) => scan.run \in ActiveRuns

\* Once the thread has reconciled, an active run that it is not scanning has an
\* active job: recovery failing a job, or a crash that parted the statements of
\* enqueue_library_scan, leaves no run behind that blocks every later scan.
NoOrphanedRun ==
    scan.pc \notin {"down", "boot"} =>
        \A r \in ActiveRuns : \/ Linked(r) /\ IsActive(runs[r].job)
                              \/ Executing /\ scan.run = r

\* The scan slot is held by one live scan or free: no second scan runs, or
\* waits to run, beside a live one, and none is blocked by a run that nobody
\* will ever finish.  The first two parts speak of runs that have their job's id:
\* one that a crash left without is failed at boot while its job is still
\* queued, against what state_db.py 2312-2314 says of such a run.  The last
\* holds as long as no database error was swallowed: one in enqueue_library_scan
\* (state_db.py 2285-2287), in the run's terminal write (2469-2474) or in the
\* reconciliation (2354-2356) leaves a run that blocks every scan until the next
\* boot.
OneLiveScan ==
    /\ OneActiveRun /\ ScannedRunIsActive
    /\ faults = 0 => NoOrphanedRun

\* A completed run has counted every track file of its inventory, through
\* batches, failing items, items without an id, yields to imports and lost
\* progress writes.
CompletedIsComplete ==
    \A r \in RunIds : runs[r].state = "completed" => runs[r].processed = runs[r].total

\* Once the cancel flag is up, or import work is waiting, at most one more
\* measurement begins: the one already past its check.
StopsWithinOneItem == extra <= 1 /\ late <= 1

\* No step revises the verdict of a run that has its job's id: not progress
\* writes, not a cancel request that read the run earlier, not reconciliation
\* after a restart, whatever writes are lost.
RunVerdictStands ==
    [][\A r \in RunIds : runs[r].state \in TerminalScanStates /\ Linked(r)
                             => runs'[r] = runs[r]]_vars
=============================================================================
