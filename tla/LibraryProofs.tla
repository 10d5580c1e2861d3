---------------------------- MODULE LibraryProofs ----------------------------
(***************************************************************************)
(* Theorems about what the library knows of its files.                     *)
(*                                                                         *)
(* LibraryScan: for any number of runs, jobs, pool threads, track files,   *)
(* crashes and swallowed database errors.                                  *)
(*                                                                         *)
(* LibraryEvidence and the decision MeasuredDecision takes on it: fresh    *)
(* metadata is current in every deployment, and so is known integrity      *)
(* until a split-tier scan runs.  The gates hold and no better file is     *)
(* replaced unseen, for every candidate, album, history of the file and    *)
(* combination of settings.                                                *)
(***************************************************************************)
EXTENDS LibraryScan, MeasuredDecision, JobStoreProofs

-----------------------------------------------------------------------------
(* The inductive invariant *)

Known(r) == runs[r].state # "absent"

\* A scan's job names a known run, which is linked to that job or to none; a
\* linked run is named by its job, and while the job waits, so does the run.
Backed ==
    /\ \A j \in JobIds :
          /\ payload[j] # 0 <=> jobs[j].state # "absent" /\ jobs[j].key = ScanKey
          /\ payload[j] # 0 => Known(payload[j]) /\ runs[payload[j]].job \in {0, j}
    /\ \A r \in RunIds :
          /\ ~Known(r) => runs[r].job = 0
          /\ Linked(r) =>
                /\ runs[r].job \in JobIds /\ payload[runs[r].job] = r
                /\ jobs[runs[r].job].state = "queued" => runs[r].state = "queued"

\* A running row has been claimed, and unless the write of its outcome was lost
\* a running scan is this thread's.
RunningIsMine ==
    \A j \in JobIds : jobs[j].state = "running" =>
        /\ jobs[j].attempts > 0
        /\ jobs[j].key = ScanKey /\ scan.pc # "down" /\ faults = 0
              => Executing /\ scan.job = j

\* The job under execution is not waiting again, the import worker's is no
\* scan, and after the run's terminal write the run is no longer active.
Held ==
    /\ Executing => Known(scan.run) /\ jobs[scan.job].state # "queued"
    /\ importing # 0 => jobs[importing].key # ScanKey /\ jobs[importing].state # "absent"
    /\ scan.pc = "marking" /\ faults = 0 => scan.run \notin ActiveRuns
    /\ scan.pc \in {"ending", "marking"} => scan.outcome # "none"

Slot == OneLiveScan /\ Backed /\ RunningIsMine /\ Held

\* The items handed out are counted, in the pool, in the batch being tallied,
\* or the one the spectral loop is at; the loop ends when all are counted.
Looping == scan.pc \in {"check", "quiet", "take", "requiet", "lease", "measure",
                        "wait", "tally"}
Pending == IF scan.pc \in {"requiet", "lease", "measure"} THEN 1 ELSE 0
AllCounted ==
    /\ scan.pc \in {"claimed", "begin", "fetch"} =>
          /\ scan.next = 0 /\ scan.flying = 0 /\ scan.ready = 0
          /\ scan.batch = 0 /\ scan.counted = 0
    /\ scan.flying = 0 \/ Looping \/ scan.pc = "drain"
    /\ Looping => /\ scan.counted + scan.flying + scan.ready + scan.batch + Pending = scan.next
                  /\ scan.next <= scan.total
                  /\ scan.batch > 0 <=> scan.pc = "tally"
    /\ scan.pc \in {"check", "quiet", "take"} => scan.next < scan.total
    /\ scan.pc = "ending" /\ scan.outcome = "completed" => scan.counted = scan.total
    /\ CompletedIsComplete

\* Past the checks nothing has been measured since the flag went up, or since
\* import work arrived.
Yields ==
    /\ StopsWithinOneItem
    /\ Executing /\ extra > 0 => is_job_cancel_requested(scan.job)
    /\ scan.pc \in {"quiet", "take", "requiet", "lease"} => extra = 0
    /\ scan.pc \in {"take", "lease"} /\ ImportActive => late = 0

IInv == TypeOK /\ Slot /\ AllCounted /\ Yields

-----------------------------------------------------------------------------
(* The thread's record *)

LEMMA AtFields ==
    ASSUME NEW p \in Positions
    PROVE  /\ At(p) \in Scan
           /\ At(p).pc = p /\ At(p).job = 0 /\ At(p).run = 0 /\ At(p).next = 0
           /\ At(p).flying = 0 /\ At(p).ready = 0 /\ At(p).batch = 0
           /\ At(p).counted = 0 /\ At(p).outcome = "none"
  BY DEF At, Scan

\* Everything but position and outcome.
SameItems(s, t) ==
    /\ s.job = t.job /\ s.run = t.run /\ s.next = t.next /\ s.flying = t.flying
    /\ s.ready = t.ready /\ s.batch = t.batch /\ s.counted = t.counted
    /\ s.total = t.total

LEMMA GotoFields ==
    ASSUME scan \in Scan, NEW p \in Positions, Goto(p)
    PROVE  scan' \in Scan /\ scan'.pc = p /\ scan'.outcome = scan.outcome /\ SameItems(scan', scan)
  BY DEF Goto, Scan, SameItems

LEMMA EndingFields ==
    ASSUME scan \in Scan, NEW s \in TerminalScanStates, Ending(s)
    PROVE  scan' \in Scan /\ scan'.pc = "ending" /\ scan'.outcome = s /\ SameItems(scan', scan)
  BY DEF Ending, Scan, SameItems, Positions

\* The loop goes on with an item only if there is one, and ends only when the
\* pool is empty and every item was handed out.
LEMMA ContinueFields ==
    ASSUME NEW s \in Scan
    PROVE  /\ Continue(s) \in Scan
           /\ SameItems(Continue(s), s)
           /\ Continue(s).pc \in {"check", "wait", "ending"}
           /\ Continue(s).pc = "check" => s.next < s.total
           /\ Continue(s).pc = "ending" =>
                 /\ Continue(s).outcome = "completed"
                 /\ s.flying = 0 /\ s.ready = 0 /\ s.next >= s.total
  <1> DEFINE at(p) == [s EXCEPT !.pc = p]
             end == [s EXCEPT !.pc = "ending", !.outcome = "completed"]
  <1>1. \A p \in Positions : at(p) \in Scan /\ SameItems(at(p), s) /\ at(p).pc = p
    BY DEF Scan, SameItems
  <1>2. end \in Scan /\ SameItems(end, s) /\ end.pc = "ending" /\ end.outcome = "completed"
    BY DEF Scan, SameItems, Positions, TerminalScanStates
  <1>3. s.flying \in Nat /\ s.ready \in Nat /\ s.next \in Nat /\ s.total \in Nat /\ Workers \in Nat \ {0}
    BY LibraryScanAssumption DEF Scan
  <1>4. CASE s.next < s.total /\ s.flying + s.ready < Workers
    <2>1. Continue(s) = at("check")
      BY <1>4 DEF Continue
    <2> QED BY <2>1, <1>1, <1>4 DEF Positions
  <1>5. CASE ~(s.next < s.total /\ s.flying + s.ready < Workers) /\ s.flying + s.ready > 0
    <2>1. Continue(s) = at("wait")
      BY <1>5 DEF Continue
    <2> QED BY <2>1, <1>1 DEF Positions
  <1>6. CASE ~(s.next < s.total /\ s.flying + s.ready < Workers) /\ ~(s.flying + s.ready > 0)
    <2>1. Continue(s) = end
      BY <1>6 DEF Continue
    <2>2. s.flying = 0 /\ s.ready = 0 /\ s.next >= s.total
      BY <1>3, <1>6
    <2> QED BY <2>1, <2>2, <1>2
  <1> QED BY <1>4, <1>5, <1>6

-----------------------------------------------------------------------------
(* What the transactions on the jobs table do to the columns that matter *)

\* A row rewritten other than by INSERT or by the scan's own claim: it stays the
\* same job, none comes back to life, and a scan neither waits again nor runs
\* again nor loses its cancel flag.
RowKept(r, s) ==
    /\ s.key = r.key
    /\ s.state = "absent" <=> r.state = "absent"
    /\ s.state \in ActiveJobStates => r.state \in ActiveJobStates
    /\ s.state = "running" => s.attempts > 0
    /\ r.key = ScanKey => /\ s.state \in {"queued", "running"} => s.state = r.state
                          /\ r.cancel => s.cancel

Kept == \A j \in JobIds : RowKept(jobs[j], jobs'[j])

\* The job of a scan that this thread does not execute stays active.
Spared ==
    \A j \in JobIds :
        jobs[j].key = ScanKey /\ IsActive(j) /\ ~(Executing /\ scan.job = j) => IsActive(j)'

LEMMA RowRewrites ==
    ASSUME NEW r \in JobRow, r.state = "running" => r.attempts > 0
    PROVE  /\ RowKept(r, r)
           /\ RowKept(r, [r EXCEPT !.lease = "valid"])
           /\ RowKept(r, [r EXCEPT !.lease = "expired"])
           /\ RowKept(r, [r EXCEPT !.due = TRUE])
           /\ r.state \in ActiveJobStates =>
                 /\ RowKept(r, CancelRow(r))
                 /\ CancelRow(r).state \in ActiveJobStates
           /\ r.state # "absent" => \A s \in TerminalJobStates : RowKept(r, MarkedRow(r, s))
           /\ r.state = "queued" /\ r.key # ScanKey => RowKept(r, ClaimedRow(r))
           /\ r.state \in {"running", "cancelling"} /\ r.key # ScanKey => RowKept(r, RetryRow(r))
           /\ \A m \in Nat : r.state = "running" /\ (r.key = ScanKey => m = 1)
                                => RowKept(r, RecoveredRow(r, m))
  <1> USE DEF JobRow, RowKept, ActiveJobStates, TerminalJobStates
  <1>1. /\ RowKept(r, r)
        /\ RowKept(r, [r EXCEPT !.lease = "valid"])
        /\ RowKept(r, [r EXCEPT !.lease = "expired"])
        /\ RowKept(r, [r EXCEPT !.due = TRUE])
    OBVIOUS
  <1>2. r.state \in ActiveJobStates => /\ RowKept(r, CancelRow(r))
                                       /\ CancelRow(r).state \in ActiveJobStates
    BY DEF CancelRow
  <1>3. r.state # "absent" => \A s \in TerminalJobStates : RowKept(r, MarkedRow(r, s))
    BY DEF MarkedRow
  <1>4. r.state = "queued" /\ r.key # ScanKey => RowKept(r, ClaimedRow(r))
    BY DEF ClaimedRow
  <1>5. r.state \in {"running", "cancelling"} /\ r.key # ScanKey => RowKept(r, RetryRow(r))
    BY DEF RetryRow
  <1>6. \A m \in Nat : r.state = "running" /\ (r.key = ScanKey => m = 1)
                                => RowKept(r, RecoveredRow(r, m))
    BY DEF RecoveredRow, MarkedRow
  <1> QED BY <1>1, <1>2, <1>3, <1>4, <1>5, <1>6

LEMMA Unharmed ==
    ASSUME JobsTypeOK, RunningIsMine
    PROVE  /\ UNCHANGED jobs => Kept /\ Spared
           /\ \A j \in JobIds : \/ heartbeat_job(j) \/ request_job_cancel(j)
                                \/ LeaseRunsOut(j) \/ BecomesDue(j)
                               => Kept /\ Spared
  <1>0. \A j \in JobIds : jobs[j] \in JobRow /\ (jobs[j].state = "running" => jobs[j].attempts > 0)
    BY DEF JobsTypeOK, RunningIsMine
  <1>1. UNCHANGED jobs => Kept /\ Spared
    BY <1>0, RowRewrites DEF Kept, Spared, IsActive
  <1>2. ASSUME NEW j \in JobIds, NEW r, jobs' = [jobs EXCEPT ![j] = r], RowKept(jobs[j], r),
               jobs[j].state \in ActiveJobStates => r.state \in ActiveJobStates
        PROVE  Kept /\ Spared
    BY <1>0, <1>2, RowRewrites DEF Kept, Spared, IsActive, JobsTypeOK
  <1>3. ASSUME NEW j \in JobIds, heartbeat_job(j) PROVE Kept /\ Spared
    <2>1. [jobs[j] EXCEPT !.lease = "valid"].state = jobs[j].state
      BY <1>0 DEF JobRow
    <2> QED BY <1>0, <1>1, <1>2, <1>3, <2>1, RowRewrites DEF heartbeat_job
  <1>4. ASSUME NEW j \in JobIds, request_job_cancel(j) PROVE Kept /\ Spared
    BY <1>0, <1>2, <1>4, RowRewrites DEF request_job_cancel, IsActive
  <1>5. ASSUME NEW j \in JobIds, LeaseRunsOut(j) PROVE Kept /\ Spared
    <2>1. [jobs[j] EXCEPT !.lease = "expired"].state = jobs[j].state
      BY <1>0 DEF JobRow
    <2> QED BY <1>0, <1>2, <1>5, <2>1, RowRewrites DEF LeaseRunsOut
  <1>6. ASSUME NEW j \in JobIds, BecomesDue(j) PROVE Kept /\ Spared
    <2>1. [jobs[j] EXCEPT !.due = TRUE].state = jobs[j].state
      BY <1>0 DEF JobRow
    <2> QED BY <1>0, <1>2, <1>6, <2>1, RowRewrites DEF BecomesDue
  <1> QED BY <1>1, <1>3, <1>4, <1>5, <1>6

\* A scan has one attempt, so recovery never hands it back; it fails only the
\* one under execution, or what a crash left.
LEMMA RecoverKeeps ==
    ASSUME JobsTypeOK, RunningIsMine, NEW S \in SUBSET Running,
           recover_stale_running_jobs(S)
    PROVE  Kept /\ (scan.pc # "down" /\ faults = 0 => Spared)
  <1>0. \A j \in JobIds : /\ jobs[j] \in JobRow /\ MaxOf(j) \in Nat
                          /\ jobs[j].state = "running" => jobs[j].attempts > 0
                          /\ jobs[j].key = ScanKey => MaxOf(j) = 1
    BY LimitType, LibraryScanAssumption DEF RunningIsMine, MaxOf
  <1>1. Kept
    BY <1>0, RowRewrites DEF Kept, recover_stale_running_jobs, Running
  <1>2. scan.pc # "down" /\ faults = 0 => Spared
    BY DEF Spared, recover_stale_running_jobs, Running, RunningIsMine, IsActive
  <1> QED BY <1>1, <1>2

LEMMA ImportKeeps ==
    ASSUME JobsTypeOK, RunningIsMine, NEW j \in JobIds
    PROVE  /\ dequeue_next_job(j, ImportTypes) =>
                 jobs[j].key # ScanKey /\ jobs[j].state = "queued" /\ Kept /\ Spared
           /\ /\ jobs[j].key # ScanKey /\ jobs[j].state # "absent"
              /\ \/ \E s \in TerminalJobStates : MarkJob(j, s)
                 \/ schedule_job_retry(j)
              => Kept /\ Spared
  <1>0. \A i \in JobIds : jobs[i] \in JobRow /\ (jobs[i].state = "running" => jobs[i].attempts > 0)
    BY DEF JobsTypeOK, RunningIsMine
  <1>1. ASSUME NEW r, jobs' = [jobs EXCEPT ![j] = r], RowKept(jobs[j], r), jobs[j].key # ScanKey
        PROVE  Kept /\ Spared
    BY <1>0, <1>1, RowRewrites DEF Kept, Spared, IsActive, JobsTypeOK
  <1>2. ASSUME dequeue_next_job(j, ImportTypes)
        PROVE  jobs[j].key # ScanKey /\ jobs[j].state = "queued" /\ Kept /\ Spared
    <2>1. jobs[j].key # ScanKey /\ jobs[j].state = "queued"
      BY <1>2, LibraryScanAssumption DEF dequeue_next_job, Eligible, ImportTypes
    <2> QED BY <1>0, <1>1, <1>2, <2>1, RowRewrites DEF dequeue_next_job
  <1>3. ASSUME jobs[j].key # ScanKey, jobs[j].state # "absent", NEW s \in TerminalJobStates,
               MarkJob(j, s)
        PROVE  Kept /\ Spared
    BY <1>0, <1>1, <1>3, RowRewrites DEF MarkJob
  <1>4. ASSUME jobs[j].key # ScanKey, schedule_job_retry(j)
        PROVE  Kept /\ Spared
    BY <1>0, <1>1, <1>4, RowRewrites DEF schedule_job_retry, CanRetry
  <1> QED BY <1>2, <1>3, <1>4

\* Only an INSERT makes import work appear.
LEMMA ImportsOnlyEnd == ASSUME Kept PROVE ImportActive' => ImportActive
  BY DEF Kept, RowKept, ImportActive, count_active_jobs, IsActive

-----------------------------------------------------------------------------
(* The thread at work on its run *)

\* What holds of the run and the job under execution.
LEMMA Own ==
    ASSUME TypeOK, Slot, Executing
    PROVE  /\ scan.run \in RunIds /\ scan.job \in JobIds /\ payload[scan.job] = scan.run
           /\ runs[scan.run] \in Run /\ runs[scan.run].job \in {0, scan.job}
           /\ jobs[scan.job].key = ScanKey /\ jobs[scan.job].state \notin {"absent", "queued"}
           /\ Known(scan.run)
           /\ scan.pc # "marking" /\ Linked(scan.run) => runs[scan.run].state \in ActiveScanStates
  <1>1. /\ scan.run \in RunIds /\ scan.job \in JobIds /\ payload[scan.job] = scan.run
        /\ runs[scan.run].job \in {0, scan.job} /\ Known(scan.run)
    BY DEF TypeOK, Slot, Held
  <1>2. runs[scan.run] \in Run
    BY <1>1 DEF TypeOK
  <1>3. scan.run # 0
    BY <1>1, LibraryScanAssumption
  <1>4. jobs[scan.job].key = ScanKey /\ jobs[scan.job].state \notin {"absent", "queued"}
    BY <1>1, <1>3 DEF Slot, Held, Backed
  <1>5. scan.pc # "marking" /\ Linked(scan.run) => runs[scan.run].state \in ActiveScanStates
    BY DEF Slot, OneLiveScan, ScannedRunIsActive, ActiveRuns
  <1> QED BY <1>1, <1>2, <1>4, <1>5

\* The thread's own run after a step: active, or what it was.
RunKept == runs'[scan.run].state \in ActiveScanStates \/ runs'[scan.run] = runs[scan.run]

\* What every write of the thread to its run leaves alone.
OwnRunOnly ==
    /\ runs' \in [RunIds -> Run]
    /\ \A r \in RunIds \ {scan.run} : runs'[r] = runs[r]
    /\ runs'[scan.run].job = runs[scan.run].job
    /\ runs'[scan.run].state # "absent"
    /\ faults' \in Nat /\ (faults' = 0 => faults = 0)

\* A step in which the thread stays with its run, and nobody else's run or job
\* is touched.
ThreadStep ==
    /\ Executing /\ scan.pc # "marking" /\ Executing'
    /\ scan'.job = scan.job /\ scan'.run = scan.run
    /\ OwnRunOnly
    /\ IF scan'.pc = "marking" THEN faults' = 0 => runs'[scan.run].state \notin ActiveScanStates
       ELSE RunKept
    /\ scan'.pc \in {"ending", "marking"} => scan'.outcome # "none"
    /\ Kept /\ Spared
    /\ UNCHANGED <<payload, importing, halfway, clear, crashes>>

\* The writes of the thread to its run take effect or are lost.
LEMMA RunWrites ==
    ASSUME TypeOK, Slot, Executing, NEW s \in ActiveScanStates \cup TerminalScanStates,
           NEW t \in Nat, NEW n \in Nat,
           \/ update_library_scan_run_state(scan.run, s)
           \/ UpdateTotals(scan.run, s, t, n)
           \/ UNCHANGED <<runs, faults>>
    PROVE  /\ OwnRunOnly
           /\ runs'[scan.run].state = s \/ runs'[scan.run] = runs[scan.run]
           /\ UpdateTotals(scan.run, s, t, n) =>
                 /\ \/ runs'[scan.run] = runs[scan.run]
                    \/ runs'[scan.run].total = t /\ runs'[scan.run].processed = n
                 /\ faults' = 0 => runs'[scan.run].state = s
  <1>1. /\ scan.run \in RunIds /\ runs[scan.run] \in Run /\ runs[scan.run].state # "absent"
        /\ runs \in [RunIds -> Run] /\ faults \in Nat /\ s # "absent"
    BY Own DEF TypeOK, Known, ActiveScanStates, TerminalScanStates
  <1>2. CASE UNCHANGED <<runs, faults>>
    <2>1. UpdateTotals(scan.run, s, t, n) => runs'[scan.run].state = s
      BY <1>1, <1>2 DEF UpdateTotals, Fault, Run
    <2> QED BY <1>1, <1>2, <2>1 DEF OwnRunOnly
  <1>3. CASE UNCHANGED runs /\ Fault
    BY <1>1, <1>3 DEF OwnRunOnly, Fault
  <1>4. CASE runs' = [runs EXCEPT ![scan.run].state = s] /\ Written
    <2>1. /\ runs' \in [RunIds -> Run] /\ runs'[scan.run].state = s
          /\ runs'[scan.run].job = runs[scan.run].job
          /\ runs'[scan.run].total = runs[scan.run].total
          /\ runs'[scan.run].processed = runs[scan.run].processed
          /\ \A r \in RunIds \ {scan.run} : runs'[r] = runs[r]
      BY <1>1, <1>4 DEF Run
    <2>2. UpdateTotals(scan.run, s, t, n) =>
             \/ runs'[scan.run] = runs[scan.run]
             \/ runs'[scan.run].total = t /\ runs'[scan.run].processed = n
      BY <1>1 DEF UpdateTotals, Run
    <2> QED BY <1>1, <1>4, <2>1, <2>2 DEF OwnRunOnly, Written
  <1>5. CASE /\ runs' = [runs EXCEPT ![scan.run].state = s, ![scan.run].total = t,
                                     ![scan.run].processed = n]
             /\ Written
    <2>1. /\ runs' \in [RunIds -> Run] /\ runs'[scan.run].state = s
          /\ runs'[scan.run].job = runs[scan.run].job
          /\ runs'[scan.run].total = t /\ runs'[scan.run].processed = n
          /\ \A r \in RunIds \ {scan.run} : runs'[r] = runs[r]
      BY <1>1, <1>5 DEF Run
    <2> QED BY <1>1, <1>5, <2>1 DEF OwnRunOnly, Written
  <1> QED BY <1>2, <1>3, <1>4, <1>5 DEF update_library_scan_run_state, UpdateTotals

\* Completed runs stay complete while the thread's own is active.
LEMMA OthersComplete ==
    ASSUME AllCounted, ThreadStep, scan'.pc # "marking"
    PROVE  CompletedIsComplete'
  BY DEF AllCounted, ThreadStep, OwnRunOnly, RunKept, CompletedIsComplete, ActiveScanStates

\* What a step without a measurement must respect.
LEMMA StillYields ==
    ASSUME TypeOK, Slot, Yields, ThreadStep, UNCHANGED <<late, extra>>,
           scan'.pc \in {"quiet", "take", "requiet", "lease"} =>
               \/ scan.pc \in {"quiet", "take", "requiet", "lease"}
               \/ ~is_job_cancel_requested(scan.job),
           scan'.pc \in {"take", "lease"} => ~ImportActive \/ late = 0
    PROVE  Yields'
  <1>1. ImportActive' => ImportActive
    BY ImportsOnlyEnd DEF ThreadStep
  <1>2. scan.job \in JobIds /\ jobs[scan.job].key = ScanKey
    BY Own DEF ThreadStep
  <1>3. is_job_cancel_requested(scan.job) => jobs'[scan'.job].cancel
    BY <1>2 DEF ThreadStep, Kept, RowKept, is_job_cancel_requested
  <1>4. StopsWithinOneItem'
    BY DEF Yields, StopsWithinOneItem
  <1>5. Executing' /\ extra' > 0 => jobs'[scan'.job].cancel
    BY <1>3 DEF Yields, ThreadStep
  <1>6. scan'.pc \in {"quiet", "take", "requiet", "lease"} => extra' = 0
    BY DEF Yields, ThreadStep, TypeOK
  <1> QED BY <1>1, <1>4, <1>5, <1>6 DEF Yields, is_job_cancel_requested

LEMMA ThreadTypes ==
    ASSUME TypeOK, Slot, ThreadStep, JobsTypeOK', scan' \in Scan,
           late' \in Nat, extra' \in Nat
    PROVE  TypeOK'
  <1>1. /\ scan.run \in RunIds /\ scan.job \in JobIds /\ payload[scan.job] = scan.run
        /\ runs[scan.run].job \in {0, scan.job}
    BY Own DEF ThreadStep
  <1>2. /\ runs' \in [RunIds -> Run] /\ faults' \in Nat /\ payload' = payload
        /\ runs'[scan.run].job = runs[scan.run].job
        /\ scan'.job = scan.job /\ scan'.run = scan.run
        /\ UNCHANGED <<importing, halfway, clear, crashes>>
    BY DEF ThreadStep, OwnRunOnly
  <1> QED BY <1>1, <1>2 DEF TypeOK

\* What every step of the thread at work on its run keeps.
Works == TypeOK' /\ ThreadStep /\ AllCounted' /\ Yields'

\* The steps that only move, and those that turn to the end of the scan.
LEMMA MoveKeeps ==
    ASSUME IInv, EarlyCheck \/ CheckCancel \/ WaitQuiet \/ WaitQuietAgain \/ Drain
    PROVE  Works
  <1>0. Executing /\ scan \in Scan /\ JobsTypeOK /\ runs \in [RunIds -> Run]
    BY DEF IInv, TypeOK, EarlyCheck, CheckCancel, WaitQuiet, WaitQuietAgain, Drain, Executing
  <1>1. scan.run \in RunIds /\ scan.job \in JobIds
    BY <1>0, Own DEF IInv
  <1>2. JobsTypeOK' /\ Kept /\ Spared
    <2>1. UNCHANGED jobs \/ heartbeat_job(scan.job)
      BY DEF EarlyCheck, CheckCancel, WaitQuiet, WaitQuietAgain, Drain
    <2>2. UNCHANGED jobs => JobsTypeOK'
      BY <1>0 DEF JobsTypeOK
    <2> QED BY <1>0, <1>1, <2>1, <2>2, Unharmed, UpdateTypes DEF IInv, Slot
  <1>3. OwnRunOnly /\ RunKept
    <2>1. UNCHANGED <<runs, faults>> \/ update_library_scan_run_state(scan.run, "cancelling")
      BY DEF EarlyCheck, CheckCancel, WaitQuiet, WaitQuietAgain, Drain, RaiseCancelled
    <2> QED BY <1>0, <2>1, RunWrites DEF IInv, ActiveScanStates, RunKept
  <1>4. UNCHANGED <<payload, importing, halfway, clear, crashes, late, extra>>
    BY DEF EarlyCheck, CheckCancel, WaitQuiet, WaitQuietAgain, Drain
  <1>5. late \in Nat /\ extra \in Nat
    BY DEF IInv, TypeOK
  <1>6. CASE EarlyCheck
    <2>1. /\ scan' \in Scan /\ SameItems(scan', scan)
          /\ scan'.pc = "begin" \/ (scan'.pc = "ending" /\ scan'.outcome = "cancelled")
      BY <1>0, <1>6, GotoFields, EndingFields DEF EarlyCheck, Positions, TerminalScanStates
    <2>2. ThreadStep
      BY <1>0, <1>2, <1>3, <1>4, <1>6, <2>1 DEF ThreadStep, EarlyCheck, Executing, SameItems
    <2>3. AllCounted'
      <3>1. CompletedIsComplete'
        BY <2>1, <2>2, OthersComplete DEF IInv
      <3> QED BY <1>6, <2>1, <3>1 DEF EarlyCheck, IInv, AllCounted, Looping, SameItems
    <2>4. Yields'
      BY <1>4, <2>1, <2>2, StillYields DEF IInv
    <2> QED BY <1>2, <1>3, <1>4, <1>5, <2>1, <2>2, <2>3, <2>4, ThreadTypes DEF Works, IInv
  <1>7. CASE CheckCancel
    <2>1. /\ scan' \in Scan /\ SameItems(scan', scan)
          /\ scan'.pc = "drain" \/ (scan'.pc = "quiet" /\ ~is_job_cancel_requested(scan.job))
      BY <1>0, <1>7, GotoFields DEF CheckCancel, RaiseCancelled, Positions
    <2>2. ThreadStep
      BY <1>0, <1>2, <1>3, <1>4, <1>7, <2>1 DEF ThreadStep, CheckCancel, Executing, SameItems
    <2>3. AllCounted'
      <3>1. CompletedIsComplete'
        BY <2>1, <2>2, OthersComplete DEF IInv
      <3> QED BY <1>3, <1>7, <2>1, <3>1
              DEF CheckCancel, IInv, AllCounted, Looping, Pending, SameItems
    <2>4. Yields'
      BY <1>4, <2>1, <2>2, StillYields DEF IInv
    <2> QED BY <1>2, <1>3, <1>4, <1>5, <2>1, <2>2, <2>3, <2>4, ThreadTypes DEF Works, IInv
  <1>8. CASE WaitQuiet
    <2>1. /\ scan' \in Scan /\ SameItems(scan', scan)
          /\ scan'.pc \in {"drain", "quiet"} \/ (scan'.pc = "take" /\ ~ImportActive)
      BY <1>0, <1>8, GotoFields DEF WaitQuiet, RaiseCancelled, Positions, SameItems
    <2>2. ThreadStep
      BY <1>0, <1>2, <1>3, <1>4, <1>8, <2>1 DEF ThreadStep, WaitQuiet, Executing, SameItems
    <2>3. AllCounted'
      <3>1. CompletedIsComplete'
        BY <2>1, <2>2, OthersComplete DEF IInv
      <3> QED BY <1>3, <1>8, <2>1, <3>1
              DEF WaitQuiet, IInv, AllCounted, Looping, Pending, SameItems
    <2>4. Yields'
      BY <1>4, <1>8, <2>1, <2>2, StillYields DEF IInv, WaitQuiet
    <2> QED BY <1>2, <1>3, <1>4, <1>5, <2>1, <2>2, <2>3, <2>4, ThreadTypes DEF Works, IInv
  <1>9. CASE WaitQuietAgain
    <2>1. /\ scan' \in Scan /\ scan'.job = scan.job /\ scan'.run = scan.run
          /\ \/ SameItems(scan', scan) /\ scan'.pc = "requiet"
             \/ SameItems(scan', scan) /\ scan'.pc = "lease" /\ ~ImportActive
             \/ /\ scan'.pc = "tally" /\ scan'.batch = 1 /\ scan'.next = scan.next
                /\ scan'.flying = scan.flying /\ scan'.ready = scan.ready
                /\ scan'.counted = scan.counted /\ scan'.total = scan.total
      <3>1. CASE scan' = [scan EXCEPT !.pc = "tally", !.batch = 1]
        BY <1>0, <3>1 DEF Scan, Positions
      <3>2. CASE Goto("lease") /\ ~ImportActive
        BY <1>0, <3>2, GotoFields DEF Positions, SameItems
      <3>3. CASE UNCHANGED scan
        BY <1>0, <1>9, <3>3 DEF WaitQuietAgain, SameItems
      <3> QED BY <1>9, <3>1, <3>2, <3>3 DEF WaitQuietAgain
    <2>2. ThreadStep
      BY <1>0, <1>2, <1>3, <1>4, <1>9, <2>1 DEF ThreadStep, WaitQuietAgain, Executing
    <2>3. AllCounted'
      <3>1. CompletedIsComplete'
        BY <2>1, <2>2, OthersComplete DEF IInv
      <3>2. /\ scan.counted + scan.flying + scan.ready + scan.batch + 1 = scan.next
            /\ scan.next <= scan.total /\ ~(scan.batch > 0) /\ scan.batch \in Nat
        BY <1>0, <1>9 DEF WaitQuietAgain, IInv, AllCounted, Looping, Pending, Scan
      <3>3. scan.batch = 0
        BY <3>2
      <3> QED BY <1>0, <1>3, <2>1, <3>1, <3>2, <3>3 DEF AllCounted, Looping, Pending, SameItems, Scan
    <2>4. Yields'
      BY <1>4, <1>9, <2>1, <2>2, StillYields DEF IInv, WaitQuietAgain
    <2> QED BY <1>2, <1>3, <1>4, <1>5, <2>1, <2>2, <2>3, <2>4, ThreadTypes DEF Works, IInv
  <1>10. CASE Drain
    <2>1. /\ scan' \in Scan /\ SameItems(scan', scan)
          /\ scan'.pc = "ending" /\ scan'.outcome = "cancelled"
      BY <1>0, <1>10, EndingFields DEF Drain, TerminalScanStates
    <2>2. ThreadStep
      BY <1>0, <1>2, <1>3, <1>4, <1>10, <2>1 DEF ThreadStep, Drain, Executing, SameItems
    <2>3. AllCounted'
      <3>1. CompletedIsComplete'
        BY <2>1, <2>2, OthersComplete DEF IInv
      <3> QED BY <1>10, <2>1, <3>1 DEF Drain, AllCounted, Looping, SameItems
    <2>4. Yields'
      BY <1>4, <2>1, <2>2, StillYields DEF IInv
    <2> QED BY <1>2, <1>3, <1>4, <1>5, <2>1, <2>2, <2>3, <2>4, ThreadTypes DEF Works, IInv
  <1> QED BY <1>6, <1>7, <1>8, <1>9, <1>10

\* The beginning of a scan and its inventory.
LEMMA BeginKeeps == ASSUME IInv, Begin \/ Fetch PROVE Works
  <1>0. Executing /\ scan \in Scan /\ JobsTypeOK /\ runs \in [RunIds -> Run]
    BY DEF IInv, TypeOK, Begin, Fetch, Executing
  <1>1. scan.run \in RunIds /\ scan.job \in JobIds
    BY <1>0, Own DEF IInv
  <1>2. JobsTypeOK' /\ Kept /\ Spared
    <2>1. UNCHANGED jobs \/ heartbeat_job(scan.job)
      BY DEF Begin, Fetch
    <2>2. UNCHANGED jobs => JobsTypeOK'
      BY <1>0 DEF JobsTypeOK
    <2> QED BY <1>0, <1>1, <2>1, <2>2, Unharmed, UpdateTypes DEF IInv, Slot
  <1>3. UNCHANGED <<payload, importing, halfway, clear, crashes, late, extra>>
    BY DEF Begin, Fetch
  <1>4. late \in Nat /\ extra \in Nat
    BY DEF IInv, TypeOK
  <1>5. /\ scan.next = 0 /\ scan.flying = 0 /\ scan.ready = 0
        /\ scan.batch = 0 /\ scan.counted = 0
    BY DEF IInv, AllCounted, Begin, Fetch
  <1>6. CASE Begin
    <2>1. /\ scan' \in Scan /\ SameItems(scan', scan)
          /\ scan'.pc = "fetch" \/ (scan'.pc = "ending" /\ scan'.outcome = "failed")
      BY <1>0, <1>6, GotoFields, EndingFields DEF Begin, Positions, TerminalScanStates
    <2>2. OwnRunOnly /\ RunKept
      <3>1. UNCHANGED <<runs, faults>> \/ update_library_scan_run_state(scan.run, "running")
        BY <1>6 DEF Begin
      <3> QED BY <1>0, <3>1, RunWrites DEF IInv, ActiveScanStates, RunKept
    <2>3. ThreadStep
      BY <1>0, <1>2, <1>3, <1>6, <2>1, <2>2 DEF ThreadStep, Begin, Executing, SameItems
    <2>4. AllCounted'
      <3>1. CompletedIsComplete'
        BY <2>1, <2>3, OthersComplete DEF IInv
      <3> QED BY <1>5, <2>1, <3>1 DEF AllCounted, Looping, SameItems
    <2>5. Yields'
      BY <1>3, <2>1, <2>3, StillYields DEF IInv
    <2> QED BY <1>2, <1>3, <1>4, <2>1, <2>2, <2>3, <2>4, <2>5, ThreadTypes DEF Works, IInv
  <1>7. ASSUME NEW n \in 0..MaxItems, scan.pc = "fetch",
               scan' = Continue([scan EXCEPT !.total = n]),
               UpdateTotals(scan.run, "running", n, scan.counted)
        PROVE  Works
    <2> DEFINE s == [scan EXCEPT !.total = n]
    <2>0. n \in Nat
      BY LibraryScanAssumption
    <2>s. /\ s \in Scan /\ s.job = scan.job /\ s.run = scan.run /\ s.total = n
          /\ s.next = 0 /\ s.flying = 0 /\ s.ready = 0 /\ s.batch = 0 /\ s.counted = 0
      BY <1>0, <1>5, <2>0 DEF Scan
    <2>1. /\ scan' \in Scan /\ SameItems(scan', s)
          /\ scan'.pc \in {"check", "wait", "ending"}
          /\ scan'.pc = "check" => 0 < n
          /\ scan'.pc = "ending" => scan'.outcome = "completed" /\ 0 >= n
      BY <1>7, <2>s, ContinueFields
    <2>2. OwnRunOnly /\ RunKept
      BY <1>0, <1>5, <1>7, <2>0, RunWrites DEF IInv, ActiveScanStates, RunKept
    <2>3. ThreadStep
      BY <1>0, <1>2, <1>3, <1>7, <2>s, <2>1, <2>2 DEF ThreadStep, Executing, SameItems
    <2>4. AllCounted'
      <3>1. CompletedIsComplete'
        BY <2>1, <2>3, OthersComplete DEF IInv
      <3> QED BY <2>0, <2>s, <2>1, <3>1 DEF AllCounted, Looping, Pending, SameItems
    <2>5. Yields'
      BY <1>3, <2>1, <2>3, StillYields DEF IInv
    <2> QED BY <1>2, <1>3, <1>4, <2>1, <2>2, <2>3, <2>4, <2>5, ThreadTypes DEF Works, IInv
  <1>8. CASE Fetch /\ Ending("failed") /\ UNCHANGED <<runs, faults>>
    <2>1. /\ scan' \in Scan /\ SameItems(scan', scan)
          /\ scan'.pc = "ending" /\ scan'.outcome = "failed"
      BY <1>0, <1>8, EndingFields DEF TerminalScanStates
    <2>0. OwnRunOnly /\ RunKept
      BY <1>0, <1>8, RunWrites DEF IInv, ActiveScanStates, RunKept
    <2>2. ThreadStep
      BY <1>0, <1>2, <1>3, <1>8, <2>0, <2>1 DEF Fetch, ThreadStep, Executing, SameItems
    <2>3. AllCounted'
      <3>1. CompletedIsComplete'
        BY <2>1, <2>2, OthersComplete DEF IInv
      <3> QED BY <1>5, <2>1, <3>1 DEF AllCounted, Looping, SameItems
    <2>4. Yields'
      BY <1>3, <2>1, <2>2, StillYields DEF IInv
    <2> QED BY <1>0, <1>2, <1>3, <1>4, <1>8, <2>1, <2>2, <2>3, <2>4, ThreadTypes DEF Works, IInv
  <1> QED BY <1>6, <1>7, <1>8 DEF Fetch

\* A measurement begins right after the checks, so it is the first one since
\* the flag went up or the imports arrived.
LEMMA MeasureYields ==
    ASSUME TypeOK, Slot, Yields, ThreadStep, Measuring, scan.pc \in {"take", "lease"},
           scan'.pc \notin {"quiet", "take", "requiet", "lease"}
    PROVE  Yields' /\ late' \in Nat /\ extra' \in Nat
  <1>0. late \in Nat /\ extra \in Nat
    BY DEF TypeOK
  <1>1. extra = 0 /\ (ImportActive => late = 0)
    BY DEF Yields
  <1>2. late' \in {0, 1} /\ extra' \in {0, 1}
    BY <1>0, <1>1 DEF Measuring
  <1>3. scan.job \in JobIds /\ jobs[scan.job].key = ScanKey
    BY Own DEF ThreadStep
  <1>4. extra' > 0 => jobs'[scan'.job].cancel
    BY <1>3 DEF Measuring, ThreadStep, Kept, RowKept, is_job_cancel_requested
  <1> QED BY <1>2, <1>4 DEF Yields, StopsWithinOneItem, is_job_cancel_requested

\* The steps of the item loops.
LEMMA ItemKeeps ==
    ASSUME IInv, TakeItem \/ Lease \/ MeasureSpectral \/ WaitForPool \/ Tally
    PROVE  Works
  <1>0. Executing /\ scan \in Scan /\ JobsTypeOK /\ runs \in [RunIds -> Run] /\ Looping
    BY DEF IInv, TypeOK, TakeItem, Lease, MeasureSpectral, WaitForPool, Tally, Executing, Looping
  <1> DEFINE n == scan.total
  <1>1. scan.run \in RunIds /\ scan.job \in JobIds /\ n \in Nat
    BY <1>0, Own DEF IInv, Scan
  <1>2. JobsTypeOK' /\ Kept /\ Spared
    <2>1. UNCHANGED jobs \/ heartbeat_job(scan.job)
      BY DEF TakeItem, Lease, MeasureSpectral, WaitForPool, Tally, Progress
    <2>2. UNCHANGED jobs => JobsTypeOK'
      BY <1>0 DEF JobsTypeOK
    <2> QED BY <1>0, <1>1, <2>1, <2>2, Unharmed, UpdateTypes DEF IInv, Slot
  <1>3. OwnRunOnly /\ RunKept
    <2>1. \/ UNCHANGED <<runs, faults>> \/ update_library_scan_run_state(scan.run, "cancelling")
          \/ UpdateTotals(scan.run, "running", scan.total, scan.counted + 1)
      BY DEF TakeItem, Lease, MeasureSpectral, WaitForPool, Tally, Progress, RaiseCancelled
    <2>2. scan.counted + 1 \in Nat
      BY <1>0 DEF Scan
    <2>3. "running" \in ActiveScanStates /\ "cancelling" \in ActiveScanStates
      BY DEF ActiveScanStates
    <2> QED BY <1>0, <1>1, <2>1, <2>2, <2>3, RunWrites DEF IInv, RunKept
  <1>4. UNCHANGED <<payload, importing, halfway, clear, crashes>>
    BY DEF TakeItem, Lease, MeasureSpectral, WaitForPool, Tally
  <1>5. late \in Nat /\ extra \in Nat
    BY DEF IInv, TypeOK
  <1>6. /\ scan.counted + scan.flying + scan.ready + scan.batch + Pending = scan.next
        /\ scan.next <= n
        /\ scan.batch > 0 <=> scan.pc = "tally"
        /\ scan.pc = "take" => scan.next < n
        /\ scan.counted \in Nat /\ scan.flying \in Nat /\ scan.ready \in Nat
        /\ scan.batch \in Nat /\ scan.next \in Nat
    BY <1>0 DEF IInv, AllCounted, Scan
  \* From the loop's record, brought up to date, to where the loop goes on.
  <1>7. ASSUME NEW s \in Scan, s.job = scan.job, s.run = scan.run, s.total = n, scan' = Continue(s),
               s.counted + s.flying + s.ready = s.next, s.next <= n, s.batch = 0
        PROVE  /\ scan' \in Scan /\ ThreadStep /\ AllCounted'
               /\ scan'.pc \in {"check", "wait", "ending"}
    <2>1. /\ scan' \in Scan /\ SameItems(scan', s) /\ scan'.pc \in {"check", "wait", "ending"}
          /\ scan'.pc = "check" => s.next < n
          /\ scan'.pc = "ending" => /\ scan'.outcome = "completed"
                                    /\ s.flying = 0 /\ s.ready = 0 /\ s.next >= n
      BY <1>1, <1>7, ContinueFields
    <2>2. ThreadStep
      BY <1>0, <1>2, <1>3, <1>4, <1>7, <2>1 DEF ThreadStep, Looping, Executing, SameItems
    <2>3. CompletedIsComplete'
      BY <2>1, <2>2, OthersComplete DEF IInv
    <2>4. s.counted \in Nat /\ s.flying \in Nat /\ s.ready \in Nat /\ s.next \in Nat
      BY DEF Scan
    <2>5. scan'.pc = "ending" => s.counted = n
      BY <1>1, <1>7, <2>1, <2>4
    <2>6. AllCounted'
      BY <1>3, <1>7, <2>1, <2>3, <2>4, <2>5, <2>2
      DEF AllCounted, Looping, Pending, SameItems, ThreadStep
    <2> QED BY <2>1, <2>2, <2>6
  <1>8. CASE TakeItem
    <2>0. scan.pc = "take" /\ Pending = 0 /\ scan.batch = 0 /\ scan.next + 1 \in Nat
      BY <1>6, <1>8 DEF TakeItem, Pending
    <2>t. /\ Taken \in Scan /\ Taken.job = scan.job /\ Taken.run = scan.run
          /\ Taken.next = scan.next + 1 /\ Taken.counted = scan.counted
          /\ Taken.flying = scan.flying /\ Taken.ready = scan.ready /\ Taken.batch = 0
          /\ Taken.total = n
      BY <1>0, <2>0 DEF Taken, Scan
    <2>1. CASE scan' = Continue(Counted) /\ UNCHANGED <<late, extra>>
      <3>1. /\ Counted \in Scan /\ Counted.job = scan.job /\ Counted.run = scan.run
            /\ Counted.next = scan.next + 1 /\ Counted.counted = scan.counted + 1
            /\ Counted.flying = scan.flying /\ Counted.ready = scan.ready /\ Counted.batch = 0
            /\ Counted.total = n
        <4>1. \A c \in Nat : LET t == [Taken EXCEPT !.counted = c] IN
                  /\ t \in Scan /\ t.job = Taken.job /\ t.run = Taken.run
                  /\ t.next = Taken.next /\ t.counted = c /\ t.flying = Taken.flying
                  /\ t.ready = Taken.ready /\ t.batch = Taken.batch /\ t.total = Taken.total
          BY <2>t DEF Scan
        <4>2. Counted = [Taken EXCEPT !.counted = scan.counted + 1]
          BY <2>t DEF Counted
        <4>3. scan.counted + 1 \in Nat
          BY <1>6
        <4> QED BY <2>t, <4>1, <4>2, <4>3
      <3>2. /\ Counted.counted + Counted.flying + Counted.ready = Counted.next
            /\ Counted.next <= n
        BY <1>1, <1>6, <2>0, <3>1
      <3>3. /\ scan' \in Scan /\ ThreadStep /\ AllCounted'
            /\ scan'.pc \in {"check", "wait", "ending"}
        BY <1>7, <2>1, <3>1, <3>2
      <3>4. Yields'
        BY <2>1, <3>3, StillYields DEF IInv
      <3> QED BY <1>2, <1>3, <1>5, <2>1, <3>3, <3>4, ThreadTypes DEF Works, IInv
    <2>2. CASE scan' = [Taken EXCEPT !.pc = "requiet"] /\ UNCHANGED <<late, extra>>
      <3>1. /\ scan' \in Scan /\ scan'.job = scan.job /\ scan'.run = scan.run
            /\ scan'.next = scan.next + 1 /\ scan'.counted = scan.counted
            /\ scan'.flying = scan.flying /\ scan'.ready = scan.ready /\ scan'.batch = 0
            /\ scan'.total = n
            /\ scan'.pc = "requiet"
        BY <1>0, <2>0, <2>2 DEF Taken, Scan, Positions
      <3>2. ThreadStep
        BY <1>0, <1>2, <1>3, <1>4, <2>0, <3>1 DEF ThreadStep, Executing
      <3>3. AllCounted'
        <4>1. CompletedIsComplete'
          BY <3>1, <3>2, OthersComplete DEF IInv
        <4> QED BY <1>1, <1>3, <1>6, <2>0, <3>1, <4>1 DEF AllCounted, Looping, Pending
      <3>4. Yields'
        BY <2>0, <2>2, <3>1, <3>2, StillYields DEF IInv
      <3> QED BY <1>2, <1>3, <1>5, <2>2, <3>1, <3>2, <3>3, <3>4, ThreadTypes DEF Works, IInv
    <2>3. CASE scan' = Continue([Taken EXCEPT !.flying = @ + 1]) /\ Measuring
      <3> DEFINE s == [Taken EXCEPT !.flying = @ + 1]
      <3>1. /\ s \in Scan /\ s.job = scan.job /\ s.run = scan.run
            /\ s.next = scan.next + 1 /\ s.counted = scan.counted
            /\ s.flying = scan.flying + 1 /\ s.ready = scan.ready /\ s.batch = 0 /\ s.total = n
        <4>1. \A c \in Nat : LET t == [Taken EXCEPT !.flying = c] IN
                  /\ t \in Scan /\ t.job = Taken.job /\ t.run = Taken.run
                  /\ t.next = Taken.next /\ t.counted = Taken.counted /\ t.flying = c
                  /\ t.ready = Taken.ready /\ t.batch = Taken.batch /\ t.total = Taken.total
          BY <2>t DEF Scan
        <4>2. s = [Taken EXCEPT !.flying = scan.flying + 1]
          BY <2>t
        <4>3. scan.flying + 1 \in Nat
          BY <1>6
        <4> QED BY <2>t, <4>1, <4>2, <4>3
      <3>2. s.counted + s.flying + s.ready = s.next /\ s.next <= n
        BY <1>1, <1>6, <2>0, <3>1
      <3>3. /\ scan' \in Scan /\ ThreadStep /\ AllCounted'
            /\ scan'.pc \in {"check", "wait", "ending"}
        BY <1>7, <2>3, <3>1, <3>2
      <3>4. Yields' /\ late' \in Nat /\ extra' \in Nat
        BY <2>0, <2>3, <3>3, MeasureYields DEF IInv
      <3> QED BY <1>2, <1>3, <3>3, <3>4, ThreadTypes DEF Works, IInv
    <2> QED BY <1>8, <2>1, <2>2, <2>3 DEF TakeItem
  <1>9. CASE Lease
    <2>1. scan' \in Scan /\ SameItems(scan', scan) /\ scan'.pc = "measure" /\ scan.pc = "lease"
      BY <1>0, <1>9, GotoFields DEF Lease, Positions
    <2>2. ThreadStep
      BY <1>0, <1>2, <1>3, <1>4, <2>1 DEF ThreadStep, Executing, SameItems
    <2>3. AllCounted'
      <3>1. CompletedIsComplete'
        BY <2>1, <2>2, OthersComplete DEF IInv
      <3> QED BY <1>3, <1>6, <2>1, <3>1 DEF AllCounted, Looping, Pending, SameItems
    <2>4. Yields' /\ late' \in Nat /\ extra' \in Nat
      BY <1>9, <2>1, <2>2, MeasureYields DEF IInv, Lease
    <2> QED BY <1>2, <1>3, <2>1, <2>2, <2>3, <2>4, ThreadTypes DEF Works, IInv
  <1>10. CASE MeasureSpectral
    <2>0. scan.pc = "measure" /\ Pending = 1 /\ scan.batch = 0 /\ UNCHANGED <<late, extra>>
      BY <1>6, <1>10 DEF MeasureSpectral, Pending
    <2>1. /\ scan' \in Scan /\ scan'.job = scan.job /\ scan'.run = scan.run
          /\ scan'.next = scan.next /\ scan'.counted = scan.counted
          /\ scan'.flying = scan.flying /\ scan'.ready = scan.ready /\ scan'.batch = 1
          /\ scan'.total = n
          /\ scan'.pc = "tally"
      BY <1>0, <1>10 DEF MeasureSpectral, Scan, Positions
    <2>2. ThreadStep
      BY <1>0, <1>2, <1>3, <1>4, <2>0, <2>1 DEF ThreadStep, Executing
    <2>3. AllCounted'
      <3>1. CompletedIsComplete'
        BY <2>1, <2>2, OthersComplete DEF IInv
      <3> QED BY <1>3, <1>6, <2>0, <2>1, <3>1 DEF AllCounted, Looping, Pending
    <2>4. Yields'
      BY <2>0, <2>1, <2>2, StillYields DEF IInv
    <2> QED BY <1>2, <1>3, <1>5, <2>0, <2>1, <2>2, <2>3, <2>4, ThreadTypes DEF Works, IInv
  <1>11. CASE WaitForPool
    <2>0. scan.pc = "wait" /\ Pending = 0 /\ scan.batch = 0 /\ UNCHANGED <<late, extra>>
      BY <1>6, <1>11 DEF WaitForPool, Pending
    <2>1. CASE scan.ready > 0 /\ scan' = [scan EXCEPT !.pc = "tally", !.batch = scan.ready, !.ready = 0]
      <3>1. /\ scan' \in Scan /\ scan'.job = scan.job /\ scan'.run = scan.run
            /\ scan'.next = scan.next /\ scan'.counted = scan.counted
            /\ scan'.flying = scan.flying /\ scan'.ready = 0 /\ scan'.batch = scan.ready
            /\ scan'.total = n
            /\ scan'.pc = "tally"
        BY <1>0, <2>1 DEF Scan, Positions
      <3>2. ThreadStep
        BY <1>0, <1>2, <1>3, <1>4, <2>0, <3>1 DEF ThreadStep, Executing
      <3>3. AllCounted'
        <4>1. CompletedIsComplete'
          BY <3>1, <3>2, OthersComplete DEF IInv
        <4> QED BY <1>3, <1>6, <2>0, <2>1, <3>1, <4>1 DEF AllCounted, Looping, Pending
      <3>4. Yields'
        BY <2>0, <3>1, <3>2, StillYields DEF IInv
      <3> QED BY <1>2, <1>3, <1>5, <2>0, <3>1, <3>2, <3>3, <3>4, ThreadTypes DEF Works, IInv
    <2>2. CASE Goto("drain")
      <3>1. scan' \in Scan /\ SameItems(scan', scan) /\ scan'.pc = "drain"
        BY <1>0, <2>2, GotoFields DEF Positions
      <3>2. ThreadStep
        BY <1>0, <1>2, <1>3, <1>4, <2>0, <3>1 DEF ThreadStep, Executing, SameItems
      <3>3. AllCounted'
        <4>1. CompletedIsComplete'
          BY <3>1, <3>2, OthersComplete DEF IInv
        <4> QED BY <3>1, <4>1 DEF AllCounted, Looping
      <3>4. Yields'
        BY <2>0, <3>1, <3>2, StillYields DEF IInv
      <3> QED BY <1>2, <1>3, <1>5, <2>0, <3>1, <3>2, <3>3, <3>4, ThreadTypes DEF Works, IInv
    <2>3. CASE scan' = Continue(scan)
      <3>1. scan.counted + scan.flying + scan.ready = scan.next
        BY <1>6, <2>0
      <3>2. /\ scan' \in Scan /\ ThreadStep /\ AllCounted'
            /\ scan'.pc \in {"check", "wait", "ending"}
        BY <1>0, <1>6, <1>7, <2>0, <2>3, <3>1
      <3>3. Yields'
        BY <2>0, <3>2, StillYields DEF IInv
      <3> QED BY <1>2, <1>3, <1>5, <2>0, <3>2, <3>3, ThreadTypes DEF Works, IInv
    <2> QED BY <1>11, <2>1, <2>2, <2>3 DEF WaitForPool, RaiseCancelled
  <1>12. CASE Tally
    <2> DEFINE s == [scan EXCEPT !.batch = @ - 1, !.counted = @ + 1]
    <2>0. /\ scan.pc = "tally" /\ Pending = 0 /\ scan.batch > 0 /\ UNCHANGED <<late, extra>>
          /\ scan.batch - 1 \in Nat /\ scan.counted + 1 \in Nat
      BY <1>6, <1>12 DEF Tally, Pending
    <2>1. /\ s \in Scan /\ s.job = scan.job /\ s.run = scan.run
          /\ s.next = scan.next /\ s.counted = scan.counted + 1
          /\ s.flying = scan.flying /\ s.ready = scan.ready /\ s.batch = scan.batch - 1
          /\ s.total = n
          /\ s.pc = "tally"
      BY <1>0, <2>0 DEF Scan
    <2>2. CASE s.batch > 0 /\ scan' = s
      <3>2. ThreadStep
        BY <1>0, <1>2, <1>3, <1>4, <2>0, <2>1, <2>2 DEF ThreadStep, Executing
      <3>3. AllCounted'
        <4>1. CompletedIsComplete'
          BY <2>1, <2>2, <3>2, OthersComplete DEF IInv
        <4>2. s.counted + s.flying + s.ready + s.batch = s.next
          BY <1>6, <2>0, <2>1
        <4> QED BY <1>3, <1>6, <2>1, <2>2, <4>1, <4>2 DEF AllCounted, Looping, Pending
      <3>4. Yields'
        BY <2>0, <2>1, <2>2, <3>2, StillYields DEF IInv
      <3> QED BY <1>2, <1>3, <1>5, <2>0, <2>1, <2>2, <3>2, <3>3, <3>4, ThreadTypes DEF Works, IInv
    <2>3. CASE ~(s.batch > 0) /\ scan' = Continue(s)
      <3>1. s.batch = 0 /\ s.counted + s.flying + s.ready = s.next /\ s.next <= n
        BY <1>6, <2>0, <2>1, <2>3
      <3>2. /\ scan' \in Scan /\ ThreadStep /\ AllCounted'
            /\ scan'.pc \in {"check", "wait", "ending"}
        BY <1>7, <2>1, <2>3, <3>1
      <3>3. Yields'
        BY <2>0, <3>2, StillYields DEF IInv
      <3> QED BY <1>2, <1>3, <1>5, <2>0, <3>2, <3>3, ThreadTypes DEF Works, IInv
    <2> QED BY <1>12, <2>2, <2>3 DEF Tally
  <1> QED BY <1>8, <1>9, <1>10, <1>11, <1>12

\* The run's terminal write: whatever the outcome, a completed run is complete.
LEMMA EndRunKeeps == ASSUME IInv, EndRun PROVE Works
  <1>0. /\ Executing /\ scan \in Scan /\ scan.pc = "ending" /\ scan.counted \in Nat
        /\ scan.total \in Nat /\ scan.outcome \in TerminalScanStates /\ JobsTypeOK
    BY DEF IInv, TypeOK, Slot, Held, EndRun, Executing, Scan
  <1>1. /\ scan' \in Scan /\ SameItems(scan', scan) /\ scan'.pc = "marking"
        /\ scan'.outcome = scan.outcome
    BY <1>0, GotoFields DEF EndRun, Positions
  <1>2. /\ OwnRunOnly
        /\ faults' = 0 => runs'[scan.run].state = scan.outcome
        /\ runs'[scan.run].state = scan.outcome \/ runs'[scan.run] = runs[scan.run]
        /\ \/ runs'[scan.run] = runs[scan.run]
           \/ runs'[scan.run].total = scan.total /\ runs'[scan.run].processed = scan.counted
    BY <1>0, RunWrites DEF IInv, EndRun
  <1>3. Kept /\ Spared /\ JobsTypeOK'
    BY <1>0, Unharmed DEF IInv, Slot, EndRun, JobsTypeOK
  <1>4. ThreadStep
    BY <1>0, <1>1, <1>2, <1>3
    DEF ThreadStep, EndRun, Executing, SameItems, TerminalScanStates, ActiveScanStates
  <1>5. CompletedIsComplete'
    <2> SUFFICES ASSUME NEW r \in RunIds, runs'[r].state = "completed"
                 PROVE  runs'[r].processed = runs'[r].total
      BY DEF CompletedIsComplete
    <2>1. CASE runs'[r] = runs[r]
      BY <2>1 DEF IInv, AllCounted, CompletedIsComplete
    <2>2. CASE r = scan.run /\ runs'[r] # runs[r]
      BY <1>0, <1>2, <2>2 DEF IInv, AllCounted
    <2> QED BY <1>2, <2>1, <2>2 DEF OwnRunOnly
  <1>6. AllCounted'
    BY <1>0, <1>1, <1>5 DEF IInv, AllCounted, Looping, SameItems
  <1>7. Yields'
    BY <1>1, <1>4, StillYields DEF IInv, EndRun
  <1>8. late' \in Nat /\ extra' \in Nat
    BY DEF IInv, TypeOK, EndRun
  <1> QED BY <1>1, <1>3, <1>4, <1>6, <1>7, <1>8, ThreadTypes DEF Works, IInv

\* A pool thread only works while the scan thread is in its loop or draining.
LEMMA PoolKeeps == ASSUME IInv, PoolFinishes PROVE Works
  <1>0. /\ scan \in Scan /\ scan.flying \in Nat /\ scan.flying > 0 /\ scan.ready \in Nat
        /\ JobsTypeOK /\ runs \in [RunIds -> Run]
    BY DEF IInv, TypeOK, PoolFinishes, Scan
  <1>1. (Looping \/ scan.pc = "drain") /\ Executing /\ scan.pc \notin {"claimed", "begin", "fetch"}
    BY <1>0 DEF IInv, AllCounted, Looping, Executing
  <1>2. /\ scan' \in Scan /\ scan'.job = scan.job /\ scan'.run = scan.run
        /\ scan'.next = scan.next /\ scan'.counted = scan.counted
        /\ scan'.flying = scan.flying - 1 /\ scan'.ready = scan.ready + 1
        /\ scan'.batch = scan.batch /\ scan'.pc = scan.pc /\ scan'.total = scan.total
        /\ scan'.outcome = scan.outcome
    <2>1. \A f, g \in Nat : LET t == [scan EXCEPT !.flying = f, !.ready = g] IN
              /\ t \in Scan /\ t.job = scan.job /\ t.run = scan.run
              /\ t.next = scan.next /\ t.counted = scan.counted /\ t.flying = f
              /\ t.ready = g /\ t.batch = scan.batch /\ t.pc = scan.pc /\ t.total = scan.total
              /\ t.outcome = scan.outcome
      BY <1>0 DEF Scan
    <2>2. scan.flying - 1 \in Nat /\ scan.ready + 1 \in Nat
      BY <1>0
    <2> QED BY <2>1, <2>2 DEF PoolFinishes
  <1>3. Kept /\ Spared /\ JobsTypeOK' /\ UNCHANGED <<runs, faults, late, extra>>
    BY <1>0, Unharmed DEF IInv, Slot, PoolFinishes, JobsTypeOK
  <1>4. OwnRunOnly /\ RunKept
    BY <1>1, <1>3, RunWrites DEF IInv, ActiveScanStates, RunKept
  <1>5. ThreadStep
    BY <1>1, <1>2, <1>3, <1>4 DEF ThreadStep, PoolFinishes, Looping, Executing
  <1>6. AllCounted'
    <2>1. CompletedIsComplete'
      BY <1>3 DEF IInv, AllCounted, CompletedIsComplete
    <2>2. Looping => /\ scan.counted + scan.flying + scan.ready + scan.batch + Pending = scan.next
                     /\ scan.next <= scan.total
                     /\ scan.batch > 0 <=> scan.pc = "tally"
      BY DEF IInv, AllCounted
    <2>3. Looping' = Looping /\ Pending' = Pending
      BY <1>2 DEF Looping, Pending
    <2>4. Looping => scan'.counted + scan'.flying + scan'.ready + scan'.batch + Pending' = scan'.next
      <3>1. scan.counted \in Nat /\ scan.batch \in Nat /\ Pending \in Nat
        BY <1>0 DEF Scan, Pending
      <3> QED BY <1>0, <1>2, <2>2, <2>3, <3>1
    <2> QED BY <1>1, <1>2, <1>3, <2>1, <2>2, <2>3, <2>4 DEF IInv, AllCounted, Looping
  <1>7. Yields'
    <2>1. scan.pc \in {"take", "lease"} => ~ImportActive \/ late = 0
      BY DEF IInv, Yields
    <2> QED BY <1>2, <1>3, <1>5, <2>1, StillYields DEF IInv
  <1>8. late' \in Nat /\ extra' \in Nat
    BY <1>3 DEF IInv, TypeOK
  <1> QED BY <1>2, <1>3, <1>5, <1>6, <1>7, <1>8, ThreadTypes DEF Works, IInv

-----------------------------------------------------------------------------
(* Preservation of the invariant *)

\* The two tables still fit when jobs are only rewritten and no run changes its
\* job or leaves "queued" under a queued one.
LEMMA BackedKept ==
    ASSUME TypeOK, Backed, Kept, UNCHANGED payload,
           \A r \in RunIds :
               /\ runs'[r].job = runs[r].job
               /\ runs'[r].state # "absent" <=> Known(r)
               /\ Linked(r) /\ jobs[runs[r].job].state = "queued" => runs'[r].state = runs[r].state
    PROVE  Backed'
  <1>0. \A j \in JobIds : RowKept(jobs[j], jobs'[j])
    BY DEF Kept
  <1>1. ASSUME NEW j \in JobIds
        PROVE  /\ payload'[j] # 0 <=> jobs'[j].state # "absent" /\ jobs'[j].key = ScanKey
               /\ payload'[j] # 0 => Known(payload[j])' /\ runs'[payload[j]].job \in {0, j}
    <2>1. payload[j] # 0 => payload[j] \in RunIds
      BY DEF TypeOK
    <2>2. /\ payload[j] # 0 <=> jobs[j].state # "absent" /\ jobs[j].key = ScanKey
          /\ payload[j] # 0 => Known(payload[j]) /\ runs[payload[j]].job \in {0, j}
      BY DEF Backed
    <2>3. payload[j] # 0 => runs'[payload[j]].state # "absent" /\ runs'[payload[j]].job \in {0, j}
      BY <2>1, <2>2
    <2>4. jobs'[j].state # "absent" /\ jobs'[j].key = ScanKey
             <=> jobs[j].state # "absent" /\ jobs[j].key = ScanKey
      BY <1>0 DEF RowKept
    <2>5. payload'[j] = payload[j]
      OBVIOUS
    <2>6. payload[j] # 0 => Known(payload[j])'
      BY <2>3 DEF Known
    <2> QED BY <2>2, <2>3, <2>4, <2>5, <2>6
  <1>2. ASSUME NEW r \in RunIds
        PROVE  /\ ~Known(r)' => runs'[r].job = 0
               /\ Linked(r)' =>
                     /\ runs'[r].job \in JobIds /\ payload'[runs'[r].job] = r
                     /\ jobs'[runs'[r].job].state = "queued" => runs'[r].state = "queued"
    <2>1. /\ runs'[r].job = runs[r].job /\ (Known(r)' <=> Known(r)) /\ (Linked(r)' <=> Linked(r))
          /\ Linked(r) /\ jobs[runs[r].job].state = "queued" => runs'[r].state = runs[r].state
      BY DEF Known, Linked
    <2>2. /\ ~Known(r) => runs[r].job = 0
          /\ Linked(r) => /\ runs[r].job \in JobIds /\ payload[runs[r].job] = r
                          /\ jobs[runs[r].job].state = "queued" => runs[r].state = "queued"
      BY DEF Backed
    <2>3. Linked(r) => jobs[runs[r].job].key = ScanKey
      <3>1. r # 0
        BY LibraryScanAssumption
      <3> QED BY <2>2, <3>1 DEF Backed
    <2>4. Linked(r) /\ jobs'[runs[r].job].state = "queued" => jobs[runs[r].job].state = "queued"
      BY <1>0, <2>2, <2>3 DEF RowKept
    <2>5. payload'[runs'[r].job] = payload[runs[r].job]
      BY <2>1
    <2> QED BY <2>1, <2>2, <2>4, <2>5
  <1>3. \A j \in JobIds : payload'[j] = payload[j]
    OBVIOUS
  <1> QED BY <1>1, <1>2, <1>3 DEF Backed

\* The job of an active run that the thread does not scan stays active.
LEMMA StaysLive ==
    ASSUME TypeOK, Slot, Spared, NEW r \in RunIds, Linked(r), IsActive(runs[r].job),
           ~(Executing /\ scan.run = r)
    PROVE  jobs'[runs[r].job].state \in ActiveJobStates
  <1>1. runs[r].job \in JobIds /\ payload[runs[r].job] = r /\ r # 0
    BY LibraryScanAssumption DEF Slot, Backed
  <1>2. jobs[runs[r].job].key = ScanKey
    BY <1>1 DEF Slot, Backed
  <1>3. ~(Executing /\ scan.job = runs[r].job)
    BY <1>1, Own
  <1> QED BY <1>1, <1>2, <1>3 DEF Spared, IsActive

\* The thread at work never gives up the slot of a linked run before its
\* terminal write.
LEMMA WorksKeeps == ASSUME IInv, Works PROVE IInv'
  <1>0. /\ Executing /\ Executing' /\ scan.pc # "marking"
        /\ scan'.job = scan.job /\ scan'.run = scan.run
        /\ \A r \in RunIds \ {scan.run} : runs'[r] = runs[r]
        /\ runs'[scan.run].job = runs[scan.run].job
        /\ runs'[scan.run].state # "absent"
        /\ scan'.pc # "marking" => RunKept
        /\ scan'.pc = "marking" /\ faults' = 0 => runs'[scan.run].state \notin ActiveScanStates
        /\ scan'.pc \in {"ending", "marking"} => scan'.outcome # "none"
        /\ importing' = importing /\ payload' = payload /\ (faults' = 0 => faults = 0)
        /\ Kept /\ Spared
    BY DEF Works, ThreadStep, OwnRunOnly
  <1>1. /\ scan.run \in RunIds /\ scan.job \in JobIds /\ payload[scan.job] = scan.run
        /\ jobs[scan.job].key = ScanKey /\ jobs[scan.job].state \notin {"absent", "queued"}
        /\ runs[scan.run].job \in {0, scan.job} /\ Known(scan.run)
        /\ Linked(scan.run) => runs[scan.run].state \in ActiveScanStates
    BY <1>0, Own DEF IInv
  <1>2. \A j \in JobIds : RowKept(jobs[j], jobs'[j])
    BY <1>0 DEF Kept
  <1>3. \A r \in RunIds : /\ runs'[r].job = runs[r].job
                          /\ runs'[r].state # "absent" <=> Known(r)
                          /\ Linked(r)' <=> Linked(r)
    BY <1>0, <1>1 DEF Known, Linked
  <1>4. OneLiveScan'
    <2>1. OneActiveRun'
      <3>1. \A r \in ActiveRuns' : Linked(r)' => r \in ActiveRuns /\ Linked(r)
        BY <1>0, <1>1, <1>3 DEF ActiveRuns
      <3> QED BY <3>1 DEF OneActiveRun, IInv, Slot, OneLiveScan
    <2>2. ScannedRunIsActive'
      BY <1>0, <1>1, <1>3 DEF ScannedRunIsActive, RunKept, ActiveRuns
    <2>3. ASSUME faults' = 0 PROVE NoOrphanedRun'
      <3> SUFFICES ASSUME NEW r \in ActiveRuns', r # scan.run
                   PROVE  Linked(r)' /\ jobs'[runs'[r].job].state \in ActiveJobStates
        BY <1>0 DEF NoOrphanedRun, IsActive
      <3>1. r \in RunIds /\ r \in ActiveRuns /\ runs'[r] = runs[r]
        BY <1>0 DEF ActiveRuns
      <3>2. scan.pc \notin {"down", "boot"} /\ faults = 0
        BY <1>0, <2>3 DEF Executing
      <3>3. Linked(r) /\ IsActive(runs[r].job)
        BY <3>1, <3>2 DEF IInv, Slot, OneLiveScan, NoOrphanedRun
      <3>4. jobs'[runs[r].job].state \in ActiveJobStates
        BY <1>0, <3>1, <3>3, StaysLive DEF IInv, IsActive
      <3> QED BY <1>3, <3>1, <3>3, <3>4
    <2> QED BY <2>1, <2>2, <2>3 DEF OneLiveScan
  <1>5. Backed'
    <2>1. Linked(scan.run) => jobs[runs[scan.run].job].state # "queued"
      BY <1>1 DEF Linked
    <2> QED BY <1>0, <1>3, <2>1, BackedKept DEF IInv, Slot
  <1>6. RunningIsMine'
    <2>1. scan.pc # "down"
      BY <1>0 DEF Executing
    <2> QED BY <1>0, <1>2, <2>1 DEF IInv, Slot, RunningIsMine, RowKept
  <1>7. Held'
    <2>1. jobs'[scan.job].state # "queued"
      BY <1>1, <1>2 DEF RowKept
    <2>2. importing # 0 => jobs'[importing].key # ScanKey /\ jobs'[importing].state # "absent"
      BY <1>2 DEF IInv, TypeOK, Slot, Held, RowKept
    <2>3. scan'.pc = "marking" /\ faults' = 0 => scan'.run \notin ActiveRuns'
      BY <1>0 DEF ActiveRuns
    <2> QED BY <1>0, <2>1, <2>2, <2>3 DEF Held, Known
  <1> QED BY <1>4, <1>5, <1>6, <1>7 DEF IInv, Works, Slot

\* A step of another actor that leaves the runs and the thread alone.
LEMMA BesideKeeps ==
    ASSUME IInv, TypeOK', Kept, scan.pc # "down" /\ faults = 0 => Spared,
           UNCHANGED <<runs, payload, scan, late, extra>>, faults' = 0 => faults = 0,
           importing' # 0 => jobs[importing'].key # ScanKey /\ jobs[importing'].state # "absent"
    PROVE  IInv'
  <1>0. \A j \in JobIds : RowKept(jobs[j], jobs'[j])
    BY DEF Kept
  <1>1. Executing => /\ scan.job \in JobIds /\ jobs[scan.job].key = ScanKey
                     /\ jobs[scan.job].state \notin {"absent", "queued"}
    BY Own DEF IInv
  <1>2. OneLiveScan'
    <2>1. ASSUME faults' = 0 PROVE NoOrphanedRun'
      <3> SUFFICES ASSUME scan.pc \notin {"down", "boot"}, NEW r \in ActiveRuns,
                          ~(Executing /\ scan.run = r)
                   PROVE  Linked(r) /\ jobs'[runs[r].job].state \in ActiveJobStates
        BY DEF NoOrphanedRun, ActiveRuns, Executing, IsActive, Linked
      <3>1. r \in RunIds /\ Linked(r) /\ IsActive(runs[r].job)
        BY <2>1 DEF ActiveRuns, IInv, Slot, OneLiveScan, NoOrphanedRun
      <3> QED BY <2>1, <3>1, StaysLive DEF IInv, IsActive
    <2> QED BY <2>1 DEF IInv, Slot, OneLiveScan, OneActiveRun, ScannedRunIsActive, ActiveRuns,
                        Executing, Linked
  <1>3. Backed'
    <2>1. \A r \in RunIds : runs'[r] = runs[r]
      OBVIOUS
    <2> QED BY <2>1, BackedKept DEF IInv, Slot, Known
  <1>4. RunningIsMine'
    BY <1>0 DEF IInv, Slot, RunningIsMine, RowKept, Executing
  <1>5. Held'
    <2>1. Executing => jobs'[scan.job].state # "queued"
      BY <1>0, <1>1 DEF RowKept
    <2>2. importing' # 0 => jobs'[importing'].key # ScanKey /\ jobs'[importing'].state # "absent"
      BY <1>0 DEF TypeOK, RowKept
    <2> QED BY <2>1, <2>2 DEF IInv, Slot, Held, Known, Executing, ActiveRuns
  <1>6. AllCounted'
    BY DEF IInv, AllCounted, Looping, Pending, CompletedIsComplete
  <1>7. Yields'
    <2>1. ImportActive' => ImportActive
      BY ImportsOnlyEnd
    <2>2. Executing /\ jobs[scan.job].cancel => jobs'[scan.job].cancel
      BY <1>0, <1>1 DEF RowKept
    <2> QED BY <2>1, <2>2 DEF IInv, Yields, StopsWithinOneItem, Executing, is_job_cancel_requested
  <1> QED BY <1>2, <1>3, <1>4, <1>5, <1>6, <1>7 DEF IInv, Slot

\* The steps of others that BesideKeeps covers: looking, cancelling a job,
\* the import worker, time.
LEMMA OthersKeep ==
    ASSUME IInv,
           \/ SchedulerLooks \/ CancelItsJob \/ (\E j \in JobIds : CancelJob(j))
           \/ ImportClaims \/ ImportSettles \/ ImportWorkerRecovers \/ TimePasses
           \/ UNCHANGED vars
    PROVE  IInv'
  <1>0. TypeOK /\ JobsTypeOK /\ RunningIsMine
    BY DEF IInv, TypeOK, Slot
  <1>1. UNCHANGED <<runs, payload, scan, crashes, late, extra>>
    BY DEF SchedulerLooks, CancelItsJob, CancelJob, ImportClaims, ImportSettles,
           ImportWorkerRecovers, TimePasses, vars
  <1>2. importing # 0 => /\ importing \in JobIds /\ jobs[importing].key # ScanKey
                         /\ jobs[importing].state # "absent"
    BY DEF IInv, TypeOK, Slot, Held
  <1>f. faults' \in Nat /\ (faults' = 0 => faults = 0)
    <2>1. faults \in Nat
      BY <1>0 DEF TypeOK
    <2>2. UNCHANGED faults \/ Fault
      BY DEF SchedulerLooks, CancelItsJob, CancelJob, ImportClaims, ImportSettles,
             ImportWorkerRecovers, TimePasses, vars, Written
    <2> QED BY <2>1, <2>2 DEF Fault
  <1>3. ASSUME JobsTypeOK', Kept, scan.pc # "down" /\ faults = 0 => Spared,
               importing' = importing \/ importing' = 0 \/
                  /\ importing' \in JobIds /\ jobs[importing'].key # ScanKey
                  /\ jobs[importing'].state # "absent",
               halfway' \in JobIds \cup {0}, clear' \in BOOLEAN
        PROVE  IInv'
    <2>1. TypeOK'
      BY <1>0, <1>1, <1>2, <1>f, <1>3 DEF TypeOK, Executing
    <2>2. importing' # 0 => jobs[importing'].key # ScanKey /\ jobs[importing'].state # "absent"
      BY <1>2, <1>3
    <2> QED BY <1>1, <1>f, <1>3, <2>1, <2>2, BesideKeeps
  <1>4. UNCHANGED jobs => JobsTypeOK' /\ Kept /\ Spared
    BY <1>0, Unharmed DEF JobsTypeOK
  <1>5. clear \in BOOLEAN /\ halfway \in JobIds \cup {0}
    BY <1>0 DEF TypeOK
  <1>6. CASE SchedulerLooks
    BY <1>3, <1>4, <1>5, <1>6 DEF SchedulerLooks
  <1>7. CASE CancelItsJob
    <2>1. halfway \in JobIds
      BY <1>5, <1>7 DEF CancelItsJob
    <2>2. JobsTypeOK' /\ Kept /\ Spared
      BY <1>0, <1>4, <1>7, <2>1, Unharmed, UpdateTypes DEF CancelItsJob
    <2> QED BY <1>3, <1>5, <1>7, <2>2 DEF CancelItsJob
  <1>8. ASSUME NEW j \in JobIds, CancelJob(j) PROVE IInv'
    <2>1. JobsTypeOK' /\ Kept /\ Spared
      BY <1>0, <1>8, Unharmed, UpdateTypes DEF CancelJob
    <2> QED BY <1>3, <1>5, <1>8, <2>1 DEF CancelJob
  <1>9. CASE ImportClaims
    <2>1. PICK j \in JobIds : dequeue_next_job(j, ImportTypes) /\ importing' = j
      BY <1>9 DEF ImportClaims
    <2>2. JobsTypeOK' /\ Kept /\ Spared /\ jobs[j].key # ScanKey /\ jobs[j].state = "queued"
      BY <1>0, <2>1, ImportKeeps, UpdateTypes
    <2> QED BY <1>3, <1>5, <1>9, <2>1, <2>2 DEF ImportClaims
  <1>10. CASE ImportSettles
    <2>1. importing \in JobIds /\ jobs[importing].key # ScanKey /\ jobs[importing].state # "absent"
      BY <1>2, <1>10 DEF ImportSettles
    <2>2. JobsTypeOK'
      BY <1>0, <1>10, <2>1, UpdateTypes DEF ImportSettles
    <2>3. Kept /\ Spared
      <3>1. \/ \E s \in TerminalJobStates : MarkJob(importing, s)
            \/ schedule_job_retry(importing)
        BY <1>10 DEF ImportSettles, mark_job_completed, mark_job_failed, mark_job_cancelled,
                     TerminalJobStates
      <3> QED BY <1>0, <2>1, <3>1, ImportKeeps
    <2> QED BY <1>3, <1>5, <1>10, <2>2, <2>3 DEF ImportSettles
  <1>11. CASE ImportWorkerRecovers
    <2>1. JobsTypeOK' /\ Kept /\ (scan.pc # "down" /\ faults = 0 => Spared)
      BY <1>0, <1>11, RecoverKeeps, RecoverTypes DEF ImportWorkerRecovers, Expired
    <2> QED BY <1>3, <1>5, <1>11, <2>1 DEF ImportWorkerRecovers
  <1>12. CASE TimePasses
    <2>1. JobsTypeOK' /\ Kept /\ Spared
      BY <1>0, <1>12, Unharmed, UpdateTypes DEF TimePasses
    <2> QED BY <1>3, <1>5, <1>12, <2>1 DEF TimePasses
  <1>13. CASE UNCHANGED vars
    BY <1>3, <1>4, <1>5, <1>13 DEF vars
  <1> QED BY <1>6, <1>7, <1>8, <1>9, <1>10, <1>11, <1>12, <1>13

\* An INSERT of import work makes the import queue busy: nothing was measured
\* since.
LEMMA EnqueueImportKeeps ==
    ASSUME IInv, NEW k \in Keys, EnqueueImport(k)
    PROVE  IInv'
  <1>0. /\ TypeOK /\ JobsTypeOK /\ RunningIsMine /\ k # ScanKey /\ TypeOf[k] \in ImportTypes
        /\ UNCHANGED <<runs, payload, scan, importing, halfway, clear, crashes, faults, extra>>
        /\ late' = IF ImportActive THEN late ELSE 0
    BY JobStoreAssumption, LibraryScanAssumption DEF IInv, TypeOK, Slot, EnqueueImport, ImportTypes
  <1>1. PICK j \in JobIds : enqueue_job(k, j)
    BY DEF EnqueueImport
  <1>2. JobsTypeOK'
    BY <1>0, <1>1, EnqueueTypes
  <1>3. TypeOK'
    <2>1. late' \in Nat
      BY <1>0 DEF TypeOK
    <2> QED BY <1>0, <1>2, <2>1 DEF TypeOK, Executing
  <1>4. CASE UNCHANGED jobs /\ j \in find_active_job_by_dedupe(k)
    <2>1. ImportActive
      BY <1>0, <1>4 DEF ImportActive, count_active_jobs, find_active_job_by_dedupe
    <2>2. Kept /\ Spared
      BY <1>0, <1>4, Unharmed
    <2>3. importing' # 0 => jobs[importing'].key # ScanKey /\ jobs[importing'].state # "absent"
      BY <1>0 DEF IInv, Slot, Held
    <2> QED BY <1>0, <1>3, <2>1, <2>2, <2>3, BesideKeeps
  <1>5. CASE IsNextId(j) /\ jobs' = [jobs EXCEPT ![j] = InsertedRow(k)]
    <2>1. /\ \A i \in JobIds \ {j} : jobs'[i] = jobs[i]
          /\ jobs[j].state = "absent"
          /\ jobs'[j].key = k /\ jobs'[j].state = "queued"
      BY <1>0, <1>5 DEF JobsTypeOK, IsNextId, InsertedRow
    <2>2. payload[j] = 0 /\ \A r \in RunIds : Linked(r) => runs[r].job \in JobIds \ {j}
      <3>1. payload[j] = 0
        BY <2>1 DEF IInv, Slot, Backed
      <3>2. \A r \in RunIds : r # 0
        BY LibraryScanAssumption
      <3> QED BY <3>1, <3>2 DEF IInv, Slot, Backed
    <2>3. Executing => scan.job \in JobIds \ {j}
      BY <2>1, Own DEF IInv
    <2>4. importing # 0 => importing \in JobIds \ {j}
      BY <2>1 DEF IInv, TypeOK, Slot, Held
    <2>5. OneLiveScan'
      <3>1. \A r \in ActiveRuns : Linked(r) => jobs'[runs[r].job] = jobs[runs[r].job]
        BY <2>1, <2>2 DEF ActiveRuns
      <3> QED BY <1>0, <3>1 DEF IInv, Slot, OneLiveScan, OneActiveRun, ScannedRunIsActive,
                                NoOrphanedRun, ActiveRuns, Executing, IsActive, Linked
    <2>6. Backed'
      <3>1. \A i \in JobIds : /\ payload'[i] = payload[i]
                              /\ payload'[i] # 0 <=> jobs'[i].state # "absent" /\ jobs'[i].key = ScanKey
        BY <1>0, <2>1, <2>2 DEF IInv, Slot, Backed
      <3>2. \A r \in RunIds : runs'[r] = runs[r] /\ (Known(r)' <=> Known(r)) /\ (Linked(r)' <=> Linked(r))
        BY <1>0 DEF Known, Linked
      <3>3. \A i \in JobIds : payload[i] # 0 =>
                /\ payload[i] \in RunIds /\ Known(payload[i]) /\ runs[payload[i]].job \in {0, i}
        BY <1>0 DEF IInv, TypeOK, Slot, Backed
      <3>4. \A i \in JobIds : payload'[i] # 0 => Known(payload[i])' /\ runs'[payload[i]].job \in {0, i}
        BY <3>1, <3>2, <3>3
      <3>5. \A r \in RunIds :
               /\ ~Known(r) => runs[r].job = 0
               /\ Linked(r) => /\ runs[r].job \in JobIds /\ payload'[runs[r].job] = r
                               /\ jobs'[runs[r].job].state = "queued" => runs[r].state = "queued"
        BY <1>0, <2>1, <2>2, <3>1 DEF IInv, Slot, Backed
      <3> QED BY <3>1, <3>2, <3>4, <3>5 DEF Backed
    <2>7. RunningIsMine'
      BY <1>0, <2>1 DEF IInv, Slot, RunningIsMine, Executing
    <2>8. Held'
      <3>1. Executing => jobs'[scan.job].state # "queued"
        BY <2>1, <2>3 DEF IInv, Slot, Held
      <3>2. importing # 0 => jobs'[importing].key # ScanKey /\ jobs'[importing].state # "absent"
        BY <2>1, <2>4 DEF IInv, Slot, Held
      <3> QED BY <1>0, <3>1, <3>2 DEF IInv, Slot, Held, Known, Executing, ActiveRuns
    <2>9. AllCounted'
      BY <1>0 DEF IInv, AllCounted, Looping, Pending, CompletedIsComplete
    <2>10. Yields'
      <3>1. Executing => jobs'[scan.job] = jobs[scan.job]
        BY <2>1, <2>3
      <3>2. late' <= 1 /\ (scan.pc \in {"take", "lease"} => late' = 0)
        BY <1>0 DEF IInv, Yields, StopsWithinOneItem
      <3> QED BY <1>0, <3>1, <3>2 DEF IInv, Yields, StopsWithinOneItem, Executing,
                                      is_job_cancel_requested
    <2> QED BY <1>3, <2>5, <2>6, <2>7, <2>8, <2>9, <2>10 DEF IInv, Slot
  <1> QED BY <1>1, <1>4, <1>5 DEF enqueue_job

\* What the statements that create a scan, all or the first of them, do to the
\* tables: one run becomes active, and the jobs get at most a queued scan.
LEMMA CreateScanTables ==
    ASSUME TypeOK, Slot, ActiveRuns = {}, NEW m \in Modes, NEW done \in {1, 2, 3},
           CreateScan(m, done)
    PROVE  /\ JobsTypeOK' /\ runs' \in [RunIds -> Run] /\ payload' \in [JobIds -> RunIds \cup {0}]
           /\ Backed'
           /\ \A j \in JobIds : \/ jobs'[j] = jobs[j] /\ payload'[j] = payload[j]
                                \/ /\ jobs[j].state = "absent"
                                   /\ jobs'[j].key = ScanKey /\ jobs'[j].state = "queued"
           /\ \E r \in RunIds :
                 /\ ~Known(r) /\ ActiveRuns' = {r} /\ runs'[r].state = "queued"
                 /\ \A q \in RunIds \ {r} : runs'[q] = runs[q]
                 /\ done = 3 => Linked(r)' /\ jobs'[runs'[r].job].state = "queued"
  <1>0. JobsTypeOK /\ runs \in [RunIds -> Run] /\ payload \in [JobIds -> RunIds \cup {0}] /\ Backed
    BY DEF TypeOK, Slot
  <1>1. PICK r \in RunIds, j \in JobIds :
            /\ runs[r].state = "absent" /\ IsNextId(j)
            /\ runs' = [runs EXCEPT ![r] = NewRun(m, IF done = 3 THEN j ELSE 0)]
            /\ \/ done = 1 /\ UNCHANGED <<jobs, payload>>
               \/ /\ done # 1
                  /\ jobs' = [jobs EXCEPT ![j] = InsertedRow(ScanKey)]
                  /\ payload' = [payload EXCEPT ![j] = r]
    BY DEF CreateScan
  <1>2. /\ r # 0 /\ j \in Nat \ {0} /\ InsertedRow(ScanKey) \in JobRow
        /\ "spectral_missing" \in Modes
    BY LibraryScanAssumption, NewRowTypes
  <1> DEFINE k == IF done = 3 THEN j ELSE 0
  <1>3. NewRun(m, k) \in Run /\ NewRun(m, k).state = "queued" /\ NewRun(m, k).job = k
    <2>1. \A n \in Nat : NewRun(m, n) \in Run /\ NewRun(m, n).state = "queued" /\ NewRun(m, n).job = n
      BY <1>2 DEF NewRun, AbsentRun, Run, ActiveScanStates
    <2>2. k \in Nat
      BY <1>2
    <2> QED BY <2>1, <2>2
  <1>4. /\ runs' \in [RunIds -> Run] /\ runs'[r].state = "queued" /\ runs'[r].job = k
        /\ \A q \in RunIds \ {r} : runs'[q] = runs[q]
    BY <1>0, <1>1, <1>3
  <1>5. /\ JobsTypeOK' /\ payload' \in [JobIds -> RunIds \cup {0}]
        /\ jobs[j].state = "absent"
        /\ \A i \in JobIds \ {j} : jobs'[i] = jobs[i] /\ payload'[i] = payload[i]
        /\ \/ done = 1 /\ jobs'[j] = jobs[j] /\ payload'[j] = payload[j]
           \/ /\ done # 1 /\ payload'[j] = r
              /\ jobs'[j].key = ScanKey /\ jobs'[j].state = "queued"
    <2>1. jobs[j].state = "absent"
      BY <1>1 DEF IsNextId
    <2>2. CASE done = 1 /\ UNCHANGED <<jobs, payload>>
      BY <1>0, <2>1, <2>2 DEF JobsTypeOK
    <2>3. CASE /\ done # 1
               /\ jobs' = [jobs EXCEPT ![j] = InsertedRow(ScanKey)]
               /\ payload' = [payload EXCEPT ![j] = r]
      <3>1. InsertedRow(ScanKey).key = ScanKey /\ InsertedRow(ScanKey).state = "queued"
        BY DEF InsertedRow
      <3> QED BY <1>0, <1>2, <2>1, <2>3, <3>1 DEF JobsTypeOK
    <2> QED BY <1>1, <2>2, <2>3
  <1>6. ActiveRuns' = {r}
    BY <1>4 DEF ActiveRuns, ActiveScanStates
  <1>7. payload[j] = 0 /\ ~Known(r) /\ \A i \in JobIds : payload[i] # r
    BY <1>0, <1>1, <1>2, <1>5 DEF Backed, Known
  <1>8. Backed'
    <2>1. \A q \in RunIds \ {r} : (Known(q)' <=> Known(q)) /\ (Linked(q)' <=> Linked(q))
      BY <1>4 DEF Known, Linked
    <2>2. Known(r)' /\ (Linked(r)' <=> done = 3)
      BY <1>2, <1>4 DEF Known, Linked
    <2>3. ASSUME NEW i \in JobIds
          PROVE  /\ payload'[i] # 0 <=> jobs'[i].state # "absent" /\ jobs'[i].key = ScanKey
                 /\ payload'[i] # 0 => /\ runs'[payload'[i]].state # "absent"
                                       /\ runs'[payload'[i]].job \in {0, i}
      <3>1. CASE i # j \/ done = 1
        <4>1. jobs'[i] = jobs[i] /\ payload'[i] = payload[i]
          BY <1>5, <3>1
        <4>2. payload[i] # 0 => /\ payload[i] \in RunIds \ {r}
                                /\ Known(payload[i]) /\ runs[payload[i]].job \in {0, i}
          BY <1>0, <1>7 DEF Backed
        <4>3. payload[i] # 0 => /\ runs'[payload[i]].state # "absent"
                                /\ runs'[payload[i]].job \in {0, i}
          BY <1>4, <4>2 DEF Known
        <4>4. payload[i] # 0 <=> jobs[i].state # "absent" /\ jobs[i].key = ScanKey
          BY <1>0 DEF Backed
        <4> QED BY <4>1, <4>3, <4>4
      <3>2. CASE i = j /\ done # 1
        <4>1. payload'[i] = r /\ jobs'[i].key = ScanKey /\ jobs'[i].state = "queued"
          BY <1>5, <3>2
        <4>2. runs'[r].job \in {0, i} /\ runs'[r].state # "absent"
          BY <1>4, <3>2
        <4> QED BY <1>2, <4>1, <4>2
      <3> QED BY <3>1, <3>2
    <2>4. ASSUME NEW q \in RunIds
          PROVE  /\ ~Known(q)' => runs'[q].job = 0
                 /\ Linked(q)' =>
                       /\ runs'[q].job \in JobIds /\ payload'[runs'[q].job] = q
                       /\ jobs'[runs'[q].job].state = "queued" => runs'[q].state = "queued"
      <3>1. CASE q = r
        BY <1>4, <1>5, <2>2, <3>1
      <3>2. CASE q # r
        <4>1. runs'[q] = runs[q] /\ (Known(q)' <=> Known(q)) /\ (Linked(q)' <=> Linked(q))
          BY <1>4, <2>1, <3>2
        <4>2. q # 0
          BY LibraryScanAssumption
        <4>3. Linked(q) => runs[q].job \in JobIds \ {j}
          BY <1>0, <1>7, <4>2 DEF Backed
        <4> QED BY <1>0, <1>5, <4>1, <4>3 DEF Backed
      <3> QED BY <3>1, <3>2
    <2> QED BY <2>3, <2>4 DEF Backed, Known
  <1>9. done = 3 => Linked(r)' /\ jobs'[runs'[r].job].state = "queued"
    BY <1>2, <1>4, <1>5 DEF Linked
  <1> QED BY <1>4, <1>5, <1>6, <1>7, <1>8, <1>9

\* A new run: no run was active, so the thread is idle, only has a job left to
\* mark, or executes a job whose run was never linked.
LEMMA EnqueueScanKeeps ==
    ASSUME IInv, NEW m \in Modes, enqueue_library_scan(m), clear' \in BOOLEAN,
           UNCHANGED <<scan, importing, halfway, crashes, late, extra>>
    PROVE  IInv'
  <1>0. TypeOK /\ Slot /\ ActiveRuns = {} /\ faults \in Nat
    BY DEF IInv, TypeOK, enqueue_library_scan
  <1>1. PICK done \in {1, 2, 3} : /\ CreateScan(m, done)
                                  /\ faults' \in Nat /\ (faults' = 0 => faults = 0 /\ done = 3)
    BY <1>0 DEF enqueue_library_scan, CreateOrFail, Written, Fault
  <1>2. /\ JobsTypeOK' /\ runs' \in [RunIds -> Run] /\ payload' \in [JobIds -> RunIds \cup {0}]
        /\ Backed'
        /\ \A j \in JobIds : \/ jobs'[j] = jobs[j] /\ payload'[j] = payload[j]
                             \/ /\ jobs[j].state = "absent"
                                /\ jobs'[j].key = ScanKey /\ jobs'[j].state = "queued"
    BY <1>0, <1>1, CreateScanTables
  <1>3. PICK r \in RunIds :
            /\ ~Known(r) /\ ActiveRuns' = {r} /\ runs'[r].state = "queued"
            /\ \A q \in RunIds \ {r} : runs'[q] = runs[q]
            /\ done = 3 => Linked(r)' /\ jobs'[runs'[r].job].state = "queued"
    BY <1>0, <1>1, CreateScanTables
  <1>4. Executing => /\ scan.run \in RunIds \ {r} /\ scan.job \in JobIds
                     /\ payload'[scan.job] = scan.run /\ jobs'[scan.job] = jobs[scan.job]
                     /\ runs'[scan.run] = runs[scan.run] /\ runs[scan.run].job \in {0, scan.job}
                     /\ Known(scan.run)
    <2>1. Executing => /\ scan.run \in RunIds /\ scan.job \in JobIds /\ Known(scan.run)
                       /\ payload[scan.job] = scan.run /\ jobs[scan.job].state # "absent"
                       /\ runs[scan.run].job \in {0, scan.job}
      BY <1>0, Own
    <2> QED BY <1>2, <1>3, <2>1
  <1>5. importing # 0 => jobs'[importing] = jobs[importing]
    BY <1>0, <1>2 DEF TypeOK, Slot, Held
  <1>6. TypeOK'
    BY <1>0, <1>1, <1>2, <1>4 DEF TypeOK, Executing
  <1>7. OneLiveScan'
    <2>1. ScannedRunIsActive'
      BY <1>0, <1>4 DEF Slot, OneLiveScan, ScannedRunIsActive, Executing, Linked
    <2>2. faults' = 0 => NoOrphanedRun'
      BY <1>1, <1>3 DEF NoOrphanedRun, IsActive, ActiveJobStates
    <2> QED BY <1>3, <2>1, <2>2 DEF OneLiveScan, OneActiveRun
  <1>8. RunningIsMine'
    BY <1>1, <1>2 DEF IInv, Slot, RunningIsMine, Executing
  <1>9. Held'
    BY <1>1, <1>3, <1>4, <1>5 DEF IInv, Slot, Held, Known, Executing
  <1>10. AllCounted'
    <2>1. CompletedIsComplete'
      BY <1>3 DEF IInv, AllCounted, CompletedIsComplete
    <2> QED BY <2>1 DEF IInv, AllCounted, Looping, Pending
  <1>11. Yields'
    <2>1. ImportActive' => ImportActive
      BY <1>2, LibraryScanAssumption DEF ImportActive, count_active_jobs, IsActive, ImportTypes
    <2> QED BY <1>4, <2>1 DEF IInv, Yields, StopsWithinOneItem, Executing, is_job_cancel_requested
  <1> QED BY <1>2, <1>6, <1>7, <1>8, <1>9, <1>10, <1>11 DEF IInv, Slot

\* Cancelling flags an active run and keeps it active.
LEMMA CancelRunKeeps ==
    ASSUME IInv, NEW r \in RunIds, CancelRun(r)
    PROVE  IInv'
  <1>0. /\ TypeOK /\ runs \in [RunIds -> Run] /\ runs[r] \in Run
        /\ runs[r].state \in ActiveScanStates /\ halfway' = runs[r].job
        /\ runs' = [runs EXCEPT ![r] = CancelledRun(runs[r])]
        /\ UNCHANGED <<jobs, payload, scan, importing, clear, crashes, faults, late, extra>>
    BY DEF IInv, TypeOK, CancelRun, ActiveRuns
  <1>1. LET c == CancelledRun(runs[r]) IN
           /\ c \in Run /\ c.state \in ActiveScanStates /\ c.job = runs[r].job
           /\ c.total = runs[r].total /\ c.processed = runs[r].processed
           /\ runs[r].state = "queued" => c.state = "queued"
    BY <1>0 DEF CancelledRun, Run, ActiveScanStates
  <1>2. /\ runs' \in [RunIds -> Run]
        /\ \A q \in RunIds \ {r} : runs'[q] = runs[q]
        /\ runs'[r].state \in ActiveScanStates /\ runs'[r].job = runs[r].job
        /\ runs'[r].total = runs[r].total
        /\ runs[r].state = "queued" => runs'[r].state = "queued"
    BY <1>0, <1>1
  <1>3. \A q \in RunIds : /\ runs'[q].job = runs[q].job /\ runs'[q].total = runs[q].total
                          /\ Known(q)' <=> Known(q)
                          /\ Linked(q)' <=> Linked(q)
                          /\ runs[q].state = "queued" => runs'[q].state = "queued"
    BY <1>0, <1>2 DEF Known, Linked, ActiveScanStates
  <1>4. ActiveRuns' = ActiveRuns
    BY <1>0, <1>2 DEF ActiveRuns
  <1>5. Executing => scan.run \in RunIds
    BY <1>0 DEF TypeOK
  <1>6. TypeOK'
    <2>1. runs[r].job \in JobIds \cup {0}
      BY DEF IInv, Slot, Backed, Linked
    <2> QED BY <1>0, <1>2, <1>3, <2>1 DEF TypeOK, Executing, JobsTypeOK
  <1>7. OneLiveScan'
    <2>1. \A q \in ActiveRuns : q \in RunIds
      BY DEF ActiveRuns
    <2>2. OneActiveRun' /\ ScannedRunIsActive'
      BY <1>0, <1>3, <1>4, <1>5, <2>1
      DEF IInv, Slot, OneLiveScan, OneActiveRun, ScannedRunIsActive, Executing
    <2>3. ASSUME faults' = 0 PROVE NoOrphanedRun'
      <3> SUFFICES ASSUME NEW q \in ActiveRuns, scan.pc \notin {"down", "boot"},
                          ~(Executing /\ scan.run = q)
                   PROVE  Linked(q)' /\ jobs[runs'[q].job].state \in ActiveJobStates
        BY <1>0, <1>4 DEF NoOrphanedRun, Executing, IsActive
      <3>1. Linked(q) /\ IsActive(runs[q].job)
        BY <1>0, <2>3 DEF IInv, Slot, OneLiveScan, NoOrphanedRun
      <3> QED BY <1>3, <2>1, <3>1 DEF IsActive
    <2> QED BY <2>2, <2>3 DEF OneLiveScan
  <1>8. Backed'
    <2>1. Kept /\ UNCHANGED payload
      BY <1>0, Unharmed DEF IInv, TypeOK, Slot
    <2>2. \A q \in RunIds : Linked(q) /\ jobs[runs[q].job].state = "queued" => runs[q].state = "queued"
      BY DEF IInv, Slot, Backed
    <2> QED BY <1>0, <1>3, <2>1, <2>2, BackedKept DEF IInv, Slot, Known
  <1>9. RunningIsMine' /\ Held'
    BY <1>0, <1>3, <1>4, <1>5 DEF IInv, Slot, RunningIsMine, Held, Executing
  <1>10. AllCounted'
    <2>1. CompletedIsComplete'
      BY <1>2 DEF IInv, AllCounted, CompletedIsComplete, ActiveScanStates
    <2> QED BY <1>0, <2>1 DEF IInv, AllCounted, Looping, Pending
  <1>11. Yields'
    BY <1>0 DEF IInv, Yields, StopsWithinOneItem, Executing, is_job_cancel_requested,
                ImportActive, count_active_jobs, IsActive
  <1> QED BY <1>6, <1>7, <1>8, <1>9, <1>10, <1>11 DEF IInv, Slot

\* A thread that executes nothing counts and measures nothing.
LEMMA ParkedKeeps ==
    ASSUME IInv, NEW p \in {"down", "boot", "idle"}, scan' = At(p),
           UNCHANGED <<late, extra>>
    PROVE  /\ scan' \in Scan /\ scan'.pc = p /\ ~Executing'
           /\ CompletedIsComplete' => AllCounted'
           /\ Yields'
           /\ OneActiveRun' /\ (p = "idle" /\ faults' = 0 => NoOrphanedRun') => OneLiveScan'
           /\ (importing' # 0 => jobs'[importing'].key # ScanKey /\ jobs'[importing'].state # "absent")
              => Held'
  <1>1. scan' \in Scan /\ scan'.pc = p /\ scan'.flying = 0
    BY AtFields DEF Positions
  <1>2. ~Executing'
    BY <1>1 DEF Executing
  <1>3. CompletedIsComplete' => AllCounted'
    BY <1>1 DEF AllCounted, Looping
  <1>4. Yields'
    BY <1>1, <1>2 DEF IInv, Yields, StopsWithinOneItem
  <1>5. OneActiveRun' /\ (p = "idle" /\ faults' = 0 => NoOrphanedRun') => OneLiveScan'
    BY <1>1, <1>2 DEF OneLiveScan, ScannedRunIsActive, NoOrphanedRun
  <1>6. (importing' # 0 => jobs'[importing'].key # ScanKey /\ jobs'[importing'].state # "absent")
              => Held'
    BY <1>1, <1>2 DEF Held
  <1> QED BY <1>1, <1>2, <1>3, <1>4, <1>5, <1>6

\* After a crash nobody executes; whatever was running is still in the table, and
\* a scan may be half created.
LEMMA CrashKeeps == ASSUME IInv, Crash PROVE IInv'
  <1>0. /\ TypeOK /\ Slot /\ scan' = At("down") /\ UNCHANGED <<faults, late, extra>>
        /\ importing' = 0 /\ halfway' = 0 /\ clear' = FALSE /\ crashes' = crashes + 1
    BY DEF IInv, Crash
  <1>1. /\ scan' \in Scan /\ scan'.pc = "down" /\ ~Executing'
        /\ CompletedIsComplete' => AllCounted'
        /\ Yields'
        /\ OneActiveRun' => OneLiveScan'
        /\ importing' = 0 => Held'
    BY <1>0, ParkedKeeps
  <1>2. /\ JobsTypeOK' /\ runs' \in [RunIds -> Run] /\ payload' \in [JobIds -> RunIds \cup {0}]
        /\ Backed' /\ OneActiveRun' /\ CompletedIsComplete'
        /\ \A j \in JobIds : jobs'[j].state = "running" => jobs'[j] = jobs[j]
    <2>1. CASE UNCHANGED <<jobs, runs, payload>>
      BY <1>0, <2>1 DEF IInv, TypeOK, JobsTypeOK, Slot, Backed, Known, Linked, OneLiveScan,
                        OneActiveRun, ActiveRuns, AllCounted, CompletedIsComplete
    <2>2. ASSUME ActiveRuns = {}, NEW m \in Modes, NEW done \in {1, 2}, CreateScan(m, done)
          PROVE  <1>2
      <3>1. done \in {1, 2, 3}
        OBVIOUS
      <3>2. /\ JobsTypeOK' /\ runs' \in [RunIds -> Run] /\ payload' \in [JobIds -> RunIds \cup {0}]
            /\ Backed'
            /\ \A j \in JobIds : \/ jobs'[j] = jobs[j] /\ payload'[j] = payload[j]
                                 \/ /\ jobs[j].state = "absent"
                                    /\ jobs'[j].key = ScanKey /\ jobs'[j].state = "queued"
        BY <1>0, <2>2, <3>1, CreateScanTables
      <3>3. PICK r \in RunIds : /\ ActiveRuns' = {r} /\ runs'[r].state = "queued"
                                /\ \A q \in RunIds \ {r} : runs'[q] = runs[q]
        BY <1>0, <2>2, <3>1, CreateScanTables
      <3>4. OneActiveRun' /\ CompletedIsComplete'
        BY <3>3 DEF OneActiveRun, IInv, AllCounted, CompletedIsComplete
      <3> QED BY <3>2, <3>4
    <2> QED BY <2>1, <2>2 DEF Crash
  <1>3. TypeOK'
    <2>1. clear' \in BOOLEAN
      BY <1>0, Zenon
    <2>2. crashes' \in Nat /\ faults' \in Nat /\ late' \in Nat /\ extra' \in Nat
      BY <1>0 DEF TypeOK
    <2> QED BY <1>0, <1>1, <1>2, <2>1, <2>2, Zenon DEF TypeOK
  <1>4. RunningIsMine'
    BY <1>1, <1>2 DEF IInv, Slot, RunningIsMine
  <1> QED BY <1>0, <1>1, <1>2, <1>3, <1>4 DEF IInv, Slot

\* The forced recovery of a boot leaves no job running.
LEMMA BootKeeps == ASSUME IInv, Boot PROVE IInv'
  <1>0. /\ TypeOK /\ JobsTypeOK /\ RunningIsMine /\ scan' = At("boot")
        /\ recover_stale_running_jobs(Running)
        /\ UNCHANGED <<runs, payload, importing, halfway, clear, crashes, faults, late, extra>>
    BY DEF IInv, TypeOK, Slot, Boot
  <1>1. \A j \in JobIds : RowKept(jobs[j], jobs'[j])
    BY <1>0, RecoverKeeps DEF Kept
  <1>2. \A j \in JobIds : jobs'[j].state # "running"
    <2> TAKE j \in JobIds
    <2>1. jobs[j] \in JobRow /\ MaxOf(j) \in Nat
      BY <1>0, LimitType
    <2>2. RecoveredRow(jobs[j], MaxOf(j)).state \in {"failed", "queued"}
      BY <2>1 DEF RecoveredRow, MarkedRow, JobRow
    <2> QED BY <1>0, <2>2 DEF recover_stale_running_jobs, Running
  <1>3. importing # 0 => jobs'[importing].key # ScanKey /\ jobs'[importing].state # "absent"
    BY <1>1 DEF IInv, TypeOK, Slot, Held, RowKept
  <1>4. /\ scan' \in Scan /\ scan'.pc = "boot" /\ ~Executing'
        /\ CompletedIsComplete' => AllCounted'
        /\ Yields'
        /\ OneActiveRun' => OneLiveScan'
        /\ Held'
    BY <1>0, <1>3, ParkedKeeps
  <1>5. TypeOK'
    BY <1>0, <1>4, RecoverTypes DEF TypeOK
  <1>6. OneActiveRun' /\ CompletedIsComplete'
    BY <1>0 DEF IInv, Slot, OneLiveScan, OneActiveRun, ActiveRuns, AllCounted, CompletedIsComplete,
                Linked
  <1>7. Backed'
    <2>1. Kept /\ \A r \in RunIds : runs'[r] = runs[r]
      BY <1>0, <1>1 DEF Kept
    <2> QED BY <1>0, <2>1, BackedKept DEF IInv, Slot, Known
  <1>8. RunningIsMine'
    BY <1>2 DEF RunningIsMine
  <1> QED BY <1>4, <1>5, <1>6, <1>7, <1>8 DEF IInv, Slot

\* Reconciliation fails every active run whose job has ended; the others have
\* an active job.
LEMMA ReconcileKeeps == ASSUME IInv, Reconcile PROVE IInv'
  <1>0. /\ TypeOK /\ scan \in Scan /\ runs \in [RunIds -> Run] /\ scan.pc = "boot" /\ ~Executing
        /\ Goto("idle") /\ reconcile_orphaned_library_scan_runs /\ faults \in Nat
        /\ UNCHANGED <<jobs, payload, importing, halfway, clear, crashes, late, extra>>
    BY DEF IInv, TypeOK, Reconcile, Executing
  <1>1. scan' \in Scan /\ scan'.pc = "idle" /\ SameItems(scan', scan) /\ ~Executing'
    BY <1>0, GotoFields DEF Positions, Executing
  <1>2. /\ runs' \in [RunIds -> Run] /\ faults' \in Nat /\ (faults' = 0 => faults = 0)
        /\ \A r \in RunIds : /\ runs'[r].job = runs[r].job
                             /\ \/ runs'[r] = runs[r] /\ (faults' = 0 => ~Orphaned(r))
                                \/ Orphaned(r) /\ runs'[r].state = "failed"
    <2>1. \A r \in RunIds : LET f == [runs[r] EXCEPT !.state = "failed"] IN
              f \in Run /\ f.job = runs[r].job /\ f.state = "failed"
      BY <1>0 DEF Run, TerminalScanStates
    <2>2. CASE UNCHANGED runs /\ Fault
      BY <1>0, <2>2 DEF Fault
    <2>3. CASE UNCHANGED faults /\ runs' = [r \in RunIds |->
                   IF Orphaned(r) THEN [runs[r] EXCEPT !.state = "failed"] ELSE runs[r]]
      BY <1>0, <2>1, <2>3
    <2> QED BY <1>0, <2>2, <2>3 DEF reconcile_orphaned_library_scan_runs, Written
  <1>3. \A r \in RunIds : (Known(r)' <=> Known(r)) /\ (Linked(r)' <=> Linked(r))
    BY <1>2 DEF Known, Linked, Orphaned, ActiveScanStates
  <1>4. ActiveRuns' \subseteq ActiveRuns /\ (faults' = 0 => \A r \in ActiveRuns' : ~Orphaned(r))
    BY <1>2 DEF ActiveRuns, ActiveScanStates
  <1>5. OneLiveScan'
    <2>1. ASSUME faults' = 0, NEW r \in ActiveRuns'
          PROVE  Linked(r)' /\ jobs'[runs'[r].job].state \in ActiveJobStates
      <3>1. r \in RunIds /\ runs[r].state \in ActiveScanStates /\ ~Orphaned(r)
        BY <1>4, <2>1 DEF ActiveRuns
      <3>2. Linked(r) /\ jobs[runs[r].job].state \notin TerminalJobStates
        BY <3>1 DEF Orphaned, Linked, IsTerminal
      <3>3. runs[r].job \in JobIds /\ payload[runs[r].job] = r /\ r # 0
        BY <3>1, <3>2, LibraryScanAssumption DEF IInv, Slot, Backed
      <3>4. jobs[runs[r].job].state # "absent" /\ jobs[runs[r].job] \in JobRow
        BY <3>3 DEF IInv, TypeOK, JobsTypeOK, Slot, Backed
      <3>5. jobs[runs[r].job].state \in ActiveJobStates
        BY <3>2, <3>4 DEF JobRow, ActiveJobStates, TerminalJobStates
      <3> QED BY <1>0, <1>2, <1>3, <3>1, <3>2, <3>5
    <2>2. OneActiveRun'
      <3>1. \A r \in ActiveRuns' : r \in ActiveRuns /\ (Linked(r)' => Linked(r))
        BY <1>3, <1>4 DEF ActiveRuns
      <3> QED BY <3>1 DEF IInv, Slot, OneLiveScan, OneActiveRun
    <2> QED BY <1>1, <2>1, <2>2 DEF OneLiveScan, ScannedRunIsActive, NoOrphanedRun, IsActive
  <1>6. TypeOK'
    BY <1>0, <1>1, <1>2 DEF TypeOK, JobsTypeOK
  <1>7. Backed'
    <2>1. \A r \in RunIds : Linked(r) /\ jobs[runs[r].job].state = "queued" => runs'[r] = runs[r]
      BY <1>2 DEF Orphaned, IsTerminal, TerminalJobStates, Linked
    <2>2. Kept
      BY <1>0, Unharmed DEF IInv, TypeOK, Slot
    <2> QED BY <1>0, <1>2, <1>3, <2>1, <2>2, BackedKept DEF IInv, Slot, Known
  <1>8. RunningIsMine' /\ Held'
    BY <1>0, <1>1, <1>2 DEF IInv, Slot, RunningIsMine, Held
  <1>9. AllCounted'
    <2>1. CompletedIsComplete'
      BY <1>2 DEF IInv, AllCounted, CompletedIsComplete
    <2> QED BY <1>0, <1>1, <2>1 DEF IInv, AllCounted, Looping, SameItems
  <1>10. Yields'
    BY <1>0, <1>1 DEF IInv, Yields, StopsWithinOneItem
  <1> QED BY <1>5, <1>6, <1>7, <1>8, <1>9, <1>10 DEF IInv, Slot

\* The claimed job names its run; a linked one was waiting with it.
LEMMA ClaimKeeps == ASSUME IInv, Claim PROVE IInv'
  <1>0. /\ TypeOK /\ JobsTypeOK /\ scan.pc = "idle" /\ ~Executing /\ extra' = 0
        /\ UNCHANGED <<runs, payload, importing, halfway, clear, crashes, faults, late>>
    BY DEF IInv, TypeOK, Claim, Executing
  <1>1. PICK j \in JobIds : /\ dequeue_next_job(j, {ScanType})
                            /\ scan' = [At("claimed") EXCEPT !.job = j, !.run = payload[j]]
    BY DEF Claim
  <1> DEFINE r == payload[j]
  <1>2. /\ scan' \in Scan /\ scan'.pc = "claimed" /\ scan'.job = j /\ scan'.run = r
        /\ scan'.next = 0 /\ scan'.flying = 0 /\ scan'.ready = 0
        /\ scan'.batch = 0 /\ scan'.counted = 0
    <2>0. payload \in [JobIds -> RunIds \cup {0}]
      BY <1>0 DEF TypeOK
    <2>a. \A q \in RunIds : q \in Nat
      BY LibraryScanAssumption
    <2>b. r \in RunIds \cup {0}
      BY <2>0
    <2>1. j \in Nat /\ r \in Nat
      <3>1. j \in Nat
        BY LibraryScanAssumption
      <3> QED BY <2>a, <2>b, <3>1
    <2>2. scan' = [pc |-> "claimed", job |-> j, run |-> r, next |-> 0, flying |-> 0, ready |-> 0,
                   batch |-> 0, total |-> 0, counted |-> 0, outcome |-> "none"]
      BY <1>1 DEF At
    <2> QED BY <2>1, <2>2 DEF Scan, Positions
  <1>3. jobs[j].key = ScanKey /\ jobs[j].state = "queued" /\ jobs[j] \in JobRow
    <2>1. jobs[j].key \in Keys /\ jobs[j] \in JobRow
      BY <1>0, LimitType
    <2> QED BY <1>1, <2>1, LibraryScanAssumption DEF dequeue_next_job, Eligible
  <1>4. /\ JobsTypeOK' /\ \A i \in JobIds \ {j} : jobs'[i] = jobs[i]
        /\ jobs'[j].key = ScanKey /\ jobs'[j].state = "running" /\ jobs'[j].attempts > 0
    <2>1. JobsTypeOK'
      BY <1>0, <1>1, UpdateTypes
    <2>2. /\ ClaimedRow(jobs[j]).key = ScanKey /\ ClaimedRow(jobs[j]).state = "running"
          /\ ClaimedRow(jobs[j]).attempts > 0
      BY <1>3 DEF ClaimedRow, JobRow
    <2> QED BY <1>0, <1>1, <2>1, <2>2 DEF dequeue_next_job, JobsTypeOK
  <1>5. /\ r \in RunIds /\ Known(r) /\ runs[r].job \in {0, j}
        /\ Linked(r) => r \in ActiveRuns
    <2>1. r # 0 /\ r \in RunIds /\ Known(r) /\ runs[r].job \in {0, j}
      BY <1>0, <1>3 DEF IInv, TypeOK, Slot, Backed
    <2>2. Linked(r) => runs[r].state = "queued"
      BY <1>3, <2>1 DEF IInv, Slot, Backed, Linked
    <2> QED BY <2>1, <2>2 DEF ActiveRuns, ActiveScanStates
  <1>6. Executing'
    BY <1>2 DEF Executing
  <1>7. TypeOK'
    BY <1>0, <1>2, <1>4, <1>5 DEF TypeOK
  <1>8. OneLiveScan'
    <2>1. ActiveRuns' = ActiveRuns /\ \A q \in RunIds : Linked(q)' <=> Linked(q)
      BY <1>0 DEF ActiveRuns, Linked
    <2>2. OneActiveRun'
      BY <2>1 DEF IInv, Slot, OneLiveScan, OneActiveRun, ActiveRuns
    <2>3. ScannedRunIsActive'
      BY <1>2, <1>5, <2>1 DEF ScannedRunIsActive
    <2>4. ASSUME faults' = 0 PROVE NoOrphanedRun'
      <3> SUFFICES ASSUME NEW q \in ActiveRuns
                   PROVE  Linked(q) /\ jobs'[runs[q].job].state \in ActiveJobStates
        BY <1>0, <2>1 DEF NoOrphanedRun, IsActive, ActiveRuns
      <3>1. q \in RunIds /\ Linked(q) /\ IsActive(runs[q].job)
        BY <1>0, <2>4 DEF ActiveRuns, IInv, Slot, OneLiveScan, NoOrphanedRun
      <3>2. runs[q].job \in JobIds
        BY <3>1 DEF IInv, Slot, Backed
      <3> QED BY <1>4, <3>1, <3>2 DEF IsActive, ActiveJobStates
    <2> QED BY <2>2, <2>3, <2>4 DEF OneLiveScan
  <1>9. Backed'
    <2>1. \A q \in RunIds : runs'[q] = runs[q] /\ (Known(q)' <=> Known(q)) /\ (Linked(q)' <=> Linked(q))
      BY <1>0 DEF Known, Linked
    <2>2. \A i \in JobIds : /\ payload'[i] = payload[i] /\ jobs'[i].key = jobs[i].key
                            /\ jobs'[i].state # "absent" <=> jobs[i].state # "absent"
                            /\ jobs'[i].state = "queued" => jobs[i].state = "queued"
      BY <1>0, <1>3, <1>4
    <2>3. ASSUME NEW i \in JobIds
          PROVE  /\ payload'[i] # 0 <=> jobs'[i].state # "absent" /\ jobs'[i].key = ScanKey
                 /\ payload'[i] # 0 => /\ runs'[payload'[i]].state # "absent"
                                       /\ runs'[payload'[i]].job \in {0, i}
      <3>1. payload[i] # 0 => /\ payload[i] \in RunIds /\ runs[payload[i]].state # "absent"
                              /\ runs[payload[i]].job \in {0, i}
        BY <1>0 DEF IInv, TypeOK, Slot, Backed, Known
      <3>2. payload[i] # 0 <=> jobs[i].state # "absent" /\ jobs[i].key = ScanKey
        BY DEF IInv, Slot, Backed
      <3> QED BY <2>1, <2>2, <3>1, <3>2
    <2>4. \A q \in RunIds :
             /\ ~Known(q)' => runs'[q].job = 0
             /\ Linked(q)' =>
                   /\ runs'[q].job \in JobIds /\ payload'[runs'[q].job] = q
                   /\ jobs'[runs'[q].job].state = "queued" => runs'[q].state = "queued"
      BY <2>1, <2>2 DEF IInv, Slot, Backed
    <2> QED BY <2>3, <2>4 DEF Backed, Known
  <1>10. RunningIsMine'
    BY <1>0, <1>2, <1>4, <1>6 DEF IInv, Slot, RunningIsMine
  <1>11. Held'
    <2>1. importing # 0 => importing \in JobIds \ {j}
      BY <1>3 DEF IInv, TypeOK, Slot, Held
    <2> QED BY <1>0, <1>2, <1>4, <1>5, <2>1 DEF IInv, Slot, Held, Known
  <1>12. AllCounted'
    <2>1. CompletedIsComplete'
      BY <1>0 DEF IInv, AllCounted, CompletedIsComplete
    <2> QED BY <1>2, <2>1 DEF AllCounted, Looping
  <1>13. Yields'
    BY <1>0, <1>2 DEF IInv, Yields, StopsWithinOneItem
  <1> QED BY <1>7, <1>8, <1>9, <1>10, <1>11, <1>12, <1>13 DEF IInv, Slot

\* The job's terminal write, or its loss: unless a write was lost the run has
\* ended before it.
LEMMA EndJobKeeps == ASSUME IInv, EndJob PROVE IInv'
  <1>0. /\ TypeOK /\ JobsTypeOK /\ scan \in Scan /\ scan.pc = "marking" /\ Executing
        /\ scan' = At("idle") /\ faults \in Nat
        /\ \/ MarkJob(scan.job, scan.outcome) /\ UNCHANGED faults
           \/ UNCHANGED jobs /\ Fault
        /\ UNCHANGED <<runs, payload, importing, halfway, clear, crashes, late, extra>>
    BY DEF IInv, TypeOK, EndJob, Executing, Written
  <1>1. /\ scan.run \in RunIds /\ scan.job \in JobIds /\ payload[scan.job] = scan.run
        /\ jobs[scan.job].key = ScanKey /\ jobs[scan.job].state \notin {"absent", "queued"}
        /\ jobs[scan.job] \in JobRow
    BY <1>0, Own DEF IInv, JobsTypeOK
  <1>2. scan.outcome \in TerminalJobStates
    BY <1>0 DEF IInv, Slot, Held, Scan, TerminalScanStates, TerminalJobStates
  <1>f. faults' \in Nat /\ (faults' = 0 => faults = 0 /\ MarkJob(scan.job, scan.outcome))
    BY <1>0 DEF Fault
  <1>3. /\ JobsTypeOK' /\ Kept
        /\ \A i \in JobIds \ {scan.job} : jobs'[i] = jobs[i]
        /\ faults' = 0 => jobs'[scan.job].state \in TerminalJobStates
    <2>1. CASE MarkJob(scan.job, scan.outcome)
      <3>1. LET w == MarkedRow(jobs[scan.job], scan.outcome) IN
               w \in JobRow /\ w.state \in TerminalJobStates /\ RowKept(jobs[scan.job], w)
        <4>1. MarkedRow(jobs[scan.job], scan.outcome) \in JobRow
          BY <1>1, <1>2, RowTypes
        <4>2. jobs[scan.job].state = "running" => jobs[scan.job].attempts > 0
          BY <1>1 DEF IInv, Slot, RunningIsMine
        <4>3. RowKept(jobs[scan.job], MarkedRow(jobs[scan.job], scan.outcome))
          BY <1>1, <1>2, <4>2, RowRewrites
        <4>4. MarkedRow(jobs[scan.job], scan.outcome).state \in TerminalJobStates
          BY <1>1, <1>2, <4>1 DEF MarkedRow, JobRow
        <4> QED BY <4>1, <4>3, <4>4
      <3>2. /\ JobsTypeOK' /\ jobs'[scan.job] = MarkedRow(jobs[scan.job], scan.outcome)
            /\ \A i \in JobIds \ {scan.job} : jobs'[i] = jobs[i]
        BY <1>0, <1>1, <2>1, <3>1 DEF MarkJob, JobsTypeOK
      <3>3. \A i \in JobIds : RowKept(jobs[i], jobs[i])
        BY <1>0, RowRewrites DEF IInv, JobsTypeOK, Slot, RunningIsMine
      <3> QED BY <3>1, <3>2, <3>3 DEF Kept
    <2>2. CASE UNCHANGED jobs /\ faults' # 0
      <3>1. Kept
        BY <1>0, <2>2, Unharmed DEF IInv, Slot
      <3> QED BY <1>0, <2>2, <3>1 DEF JobsTypeOK
    <2> QED BY <1>0, <1>f, <2>1, <2>2 DEF Fault
  <1>4. importing # 0 => jobs'[importing].key # ScanKey /\ jobs'[importing].state # "absent"
    <2>1. importing # 0 => importing \in JobIds \ {scan.job}
      BY <1>1 DEF IInv, TypeOK, Slot, Held
    <2> QED BY <1>3, <2>1 DEF IInv, Slot, Held
  <1>5. /\ scan' \in Scan /\ scan'.pc = "idle" /\ ~Executing'
        /\ CompletedIsComplete' => AllCounted'
        /\ Yields'
        /\ OneActiveRun' /\ (faults' = 0 => NoOrphanedRun') => OneLiveScan'
        /\ Held'
    BY <1>0, <1>4, ParkedKeeps
  <1>6. TypeOK'
    BY <1>0, <1>f, <1>3, <1>5 DEF TypeOK
  <1>7. OneActiveRun' /\ CompletedIsComplete'
    BY <1>0 DEF IInv, Slot, OneLiveScan, OneActiveRun, ActiveRuns, AllCounted, CompletedIsComplete,
                Linked
  <1>8. ASSUME faults' = 0 PROVE NoOrphanedRun'
    <2> SUFFICES ASSUME NEW r \in ActiveRuns
                 PROVE  Linked(r) /\ jobs'[runs[r].job].state \in ActiveJobStates
      BY <1>0 DEF NoOrphanedRun, ActiveRuns, IsActive, Linked
    <2>1. r \in RunIds /\ r # scan.run /\ faults = 0 /\ r # 0
      BY <1>0, <1>f, <1>8, LibraryScanAssumption DEF ActiveRuns, IInv, Slot, Held
    <2>2. Linked(r) /\ IsActive(runs[r].job)
      BY <1>0, <2>1 DEF IInv, Slot, OneLiveScan, NoOrphanedRun
    <2>3. runs[r].job \in JobIds \ {scan.job}
      BY <1>1, <2>1, <2>2 DEF IInv, Slot, Backed
    <2> QED BY <1>3, <2>2, <2>3 DEF IsActive
  <1>9. Backed'
    <2>1. \A r \in RunIds : runs'[r] = runs[r]
      BY <1>0
    <2> QED BY <1>0, <1>3, <2>1, BackedKept DEF IInv, Slot, Known
  <1>10. RunningIsMine'
    <2>1. \A j \in JobIds : RowKept(jobs[j], jobs'[j])
      BY <1>3 DEF Kept
    <2>2. faults' = 0 => jobs'[scan.job].state # "running"
      BY <1>3 DEF TerminalJobStates
    <2>3. \A j \in JobIds : jobs'[j].state = "running" /\ jobs'[j].key = ScanKey => faults' # 0
      BY <1>0, <1>f, <1>3, <2>1, <2>2 DEF IInv, Slot, RunningIsMine, RowKept
    <2> QED BY <2>1, <2>3 DEF RunningIsMine, RowKept
  <1> QED BY <1>5, <1>6, <1>7, <1>8, <1>9, <1>10 DEF IInv, Slot

-----------------------------------------------------------------------------
(* The theorems *)

LEMMA InitIInv == ASSUME Init PROVE IInv
  <1>1. scan \in Scan /\ scan.pc = "down" /\ scan.flying = 0 /\ ~Executing
    BY AtFields DEF Init, Positions, Executing
  <1>2. /\ \A r \in RunIds : runs[r].state = "absent" /\ runs[r].job = 0
        /\ \A j \in JobIds : payload[j] = 0
    BY DEF Init, AbsentRun
  <1>3. \A j \in JobIds : jobs[j].state = "absent"
    BY DEF Init, JobsInit, AbsentRow
  <1>4. TypeOK
    <2>1. runs \in [RunIds -> Run] /\ payload \in [JobIds -> RunIds \cup {0}]
      <3>1. AbsentRun \in Run
        BY LibraryScanAssumption DEF AbsentRun, Run
      <3> QED BY <3>1 DEF Init
    <2>2. clear \in BOOLEAN
      BY Zenon DEF Init
    <2>3. JobsTypeOK
      BY NewRowTypes DEF Init, JobsInit, JobsTypeOK
    <2>4. importing = 0 /\ halfway = 0 /\ crashes \in Nat /\ faults \in Nat /\ late \in Nat /\ extra \in Nat
      BY DEF Init
    <2> QED BY <1>1, <2>1, <2>2, <2>3, <2>4, Zenon DEF TypeOK
  <1>5. Slot
    <2>1. ActiveRuns = {}
      BY <1>2 DEF ActiveRuns, ActiveScanStates
    <2>2. OneLiveScan
      BY <1>1, <2>1 DEF OneLiveScan, OneActiveRun, ScannedRunIsActive, NoOrphanedRun
    <2>3. Backed
      BY <1>2, <1>3 DEF Backed, Known, Linked
    <2>4. RunningIsMine
      BY <1>3 DEF RunningIsMine
    <2>5. Held
      BY <1>1 DEF Held, Init
    <2> QED BY <2>2, <2>3, <2>4, <2>5 DEF Slot
  <1>6. AllCounted
    BY <1>1, <1>2 DEF AllCounted, Looping, CompletedIsComplete
  <1>7. Yields
    BY <1>1 DEF Yields, StopsWithinOneItem, Init
  <1> QED BY <1>4, <1>5, <1>6, <1>7 DEF IInv

\* The steps of the thread and of its pool that Works describes.
AtWork ==
    \/ EarlyCheck \/ Begin \/ Fetch \/ CheckCancel \/ WaitQuiet \/ TakeItem
    \/ WaitQuietAgain \/ Lease \/ MeasureSpectral \/ WaitForPool \/ Tally
    \/ Drain \/ EndRun \/ PoolFinishes

LEMMA AtWorkWorks == ASSUME IInv, AtWork PROVE Works
  BY MoveKeeps, BeginKeeps, ItemKeeps, EndRunKeeps, PoolKeeps DEF AtWork

LEMMA NextIInv == ASSUME IInv, [Next]_vars PROVE IInv'
  <1>0. clear \in BOOLEAN /\ {"metadata"} \subseteq Modes
    BY LibraryScanAssumption DEF IInv, TypeOK
  <1>1. ASSUME NEW m \in Modes, StartScan(m) PROVE IInv'
    BY <1>0, <1>1, EnqueueScanKeeps DEF StartScan
  <1>2. CASE SchedulerQueues
    <2>1. clear' \in BOOLEAN
      BY <1>2, Zenon DEF SchedulerQueues
    <2>2. CASE enqueue_library_scan("metadata")
      BY <1>0, <1>2, <2>1, <2>2, EnqueueScanKeeps DEF SchedulerQueues
    <2>3. CASE UNCHANGED <<jobs, runs, payload, faults>>
      <3>1. UNCHANGED <<jobs, runs, payload, scan, importing, halfway, crashes, faults, late, extra>>
        BY <1>2, <2>3 DEF SchedulerQueues
      <3>2. TypeOK'
        BY <2>1, <3>1 DEF IInv, TypeOK, JobsTypeOK, Executing
      <3>3. Kept /\ Spared
        BY <3>1, Unharmed DEF IInv, TypeOK, Slot
      <3>4. importing' # 0 => jobs[importing'].key # ScanKey /\ jobs[importing'].state # "absent"
        BY <3>1 DEF IInv, Slot, Held
      <3> QED BY <3>1, <3>2, <3>3, <3>4, BesideKeeps
    <2> QED BY <1>2, <2>2, <2>3 DEF SchedulerQueues
  <1>3. ASSUME NEW r \in RunIds, CancelRun(r) PROVE IInv'
    BY <1>3, CancelRunKeeps
  <1>4. ASSUME NEW k \in Keys, EnqueueImport(k) PROVE IInv'
    BY <1>4, EnqueueImportKeeps
  <1>5. CASE \/ SchedulerLooks \/ CancelItsJob \/ (\E j \in JobIds : CancelJob(j))
             \/ ImportClaims \/ ImportSettles \/ ImportWorkerRecovers \/ TimePasses
             \/ UNCHANGED vars
    BY <1>5, OthersKeep
  <1>6. CASE AtWork
    BY <1>6, AtWorkWorks, WorksKeeps
  <1>7. CASE Boot \/ Reconcile \/ Claim \/ EndJob \/ Crash
    BY <1>7, BootKeeps, ReconcileKeeps, ClaimKeeps, EndJobKeeps, CrashKeeps
  <1> QED BY <1>1, <1>2, <1>3, <1>4, <1>5, <1>6, <1>7 DEF Next, ScanThread, ImportWorker, AtWork

\* The invariant holds throughout: the thread, the HTTP handlers, the scheduler
\* and the import worker's recovery keep to it in any order, with crashes and
\* swallowed database errors at any statement.
THEOREM ScanInvariant == Spec => []IInv
  BY InitIInv, NextIInv, PTL DEF Spec

\* Type correctness: an executing thread always holds a run and the job that
\* backs it (library_scan_worker._execute_library_scan_job).
THEOREM ScanTypeCorrect == Spec => []TypeOK
  <1>1. IInv => TypeOK
    BY DEF IInv
  <1> QED BY <1>1, ScanInvariant, PTL

\* The scan slot is held by one live scan or free, although enqueue_library_scan
\* looks only at the runs and recovery only at the jobs.  Runs that a crash or
\* an error left without their job's id, and runs that a swallowed error left
\* active until the next boot, are exempt as OneLiveScan says.
THEOREM OneScanAtATime == Spec => []OneLiveScan
  <1>1. IInv => OneLiveScan
    BY DEF IInv, Slot
  <1> QED BY <1>1, ScanInvariant, PTL

\* A run marked completed has counted every track file Lidarr reported, however
\* the pool's batches fell.
THEOREM CompletedScansAreComplete == Spec => []CompletedIsComplete
  <1>1. IInv => CompletedIsComplete
    BY DEF IInv, AllCounted
  <1> QED BY <1>1, ScanInvariant, PTL

\* After a cancel request, or once import work waits, a scan begins at most one
\* more measurement (_raise_if_cancelled, _wait_for_import_quiet).
THEOREM ScanStopsWithinOneItem == Spec => []StopsWithinOneItem
  <1>1. IInv => StopsWithinOneItem
    BY DEF IInv, Yields
  <1> QED BY <1>1, ScanInvariant, PTL

\* No step rewrites a run that has ended and has its job's id: the thread writes
\* only its own run, which stays active until its terminal write even when
\* writes are lost, and nobody else writes an inactive one.
THEOREM VerdictsStand == Spec => RunVerdictStands
  <1>1. ASSUME IInv, [Next]_vars
        PROVE  [\A r \in RunIds : runs[r].state \in TerminalScanStates /\ Linked(r)
                                     => runs'[r] = runs[r]]_vars
    <2> SUFFICES ASSUME Next, NEW r \in RunIds, runs[r].state \in TerminalScanStates,
                        Linked(r)
                 PROVE  runs'[r] = runs[r]
      BY <1>1
    <2>0. /\ runs \in [RunIds -> Run] /\ runs[r].state # "absent"
          /\ runs[r].state \notin ActiveScanStates
      BY <1>1 DEF IInv, TypeOK, TerminalScanStates, ActiveScanStates
    <2>1. CASE AtWork
      <3>1. Executing /\ scan.pc # "marking"
            /\ \A q \in RunIds \ {scan.run} : runs'[q] = runs[q]
        BY <1>1, <2>1, AtWorkWorks DEF Works, ThreadStep, OwnRunOnly
      <3>2. r # scan.run
        BY <1>1, <2>0, <3>1, Own DEF IInv
      <3> QED BY <3>1, <3>2
    <2>c. ASSUME NEW m, NEW done, CreateScan(m, done) PROVE runs'[r] = runs[r]
      BY <2>0, <2>c DEF CreateScan
    <2>2. ASSUME NEW m \in Modes, enqueue_library_scan(m) PROVE runs'[r] = runs[r]
      BY <2>c, <2>2 DEF enqueue_library_scan, CreateOrFail
    <2>3. ASSUME NEW q \in RunIds, CancelRun(q) PROVE runs'[r] = runs[r]
      BY <2>0, <2>3 DEF CancelRun, ActiveRuns
    <2>4. CASE Reconcile
      BY <2>0, <2>4 DEF Reconcile, reconcile_orphaned_library_scan_runs, Orphaned
    <2>5. CASE SchedulerQueues
      BY <2>2, <2>5, LibraryScanAssumption DEF SchedulerQueues
    <2>6. CASE UNCHANGED runs
      BY <2>6
    <2>7. CASE Crash
      BY <2>c, <2>7 DEF Crash
    <2> QED BY <2>1, <2>2, <2>3, <2>4, <2>5, <2>6, <2>7
            DEF Next, ScanThread, ImportWorker, AtWork, StartScan, SchedulerLooks, CancelItsJob,
                CancelJob, EnqueueImport, ImportClaims, ImportSettles, ImportWorkerRecovers,
                Boot, Claim, EndJob, TimePasses
  <1>2. Spec => [][\A r \in RunIds : runs[r].state \in TerminalScanStates /\ Linked(r)
                                         => runs'[r] = runs[r]]_vars
    BY <1>1, ScanInvariant, PTL DEF Spec
  <1> QED BY <1>2 DEF RunVerdictStands

-----------------------------------------------------------------------------
(* The evidence row: its types *)

LEMMA IdleType == Idle \in Task
  BY DEF Idle, Task, AllTiers

\* What beginning a task does to the measurers' locals.
LEMMA BeginEffect ==
    ASSUME EvidenceTypeOK, NEW m \in Measurers, NEW t \in AllTiers, NEW s \in Nat,
           BeginTask(m, t, s)
    PROVE  /\ task' \in [Measurers -> Task]
           /\ task'[m].pc = "measure" /\ task'[m].tier = t
           /\ task'[m].stat = s /\ task'[m].seen = 0
           /\ \A n \in Measurers \ {m} : task'[n] = task[n]
  BY DEF BeginTask, EvidenceTypeOK, Idle, Task, AllTiers

\* What the probe does to them.
LEMMA MeasureEffect ==
    ASSUME EvidenceTypeOK, NEW m \in Measurers, Measure(m)
    PROVE  /\ task' \in [Measurers -> Task]
           /\ task'[m].pc = "write" /\ task'[m].tier = task[m].tier
           /\ task'[m].stat = task[m].stat /\ task'[m].seen = file
           /\ \A n \in Measurers \ {m} : task'[n] = task[n]
  <1>1. task[m] \in Task /\ file \in Nat /\ task \in [Measurers -> Task]
    BY DEF EvidenceTypeOK
  <1>2. PICK s \in {"measured", "unmeasured"} :
          task' = [task EXCEPT ![m] = [task[m] EXCEPT !.pc = "write", !.seen = file,
                                                      !.status = s]]
    BY <1>1 DEF Measure, Task
  <1>3. [task[m] EXCEPT !.pc = "write", !.seen = file, !.status = s] \in Task
    BY <1>1 DEF Task
  <1>4. task'[m] = [task[m] EXCEPT !.pc = "write", !.seen = file, !.status = s]
    BY <1>1, <1>2
  <1>5. /\ task' \in [Measurers -> Task]
        /\ \A n \in Measurers \ {m} : task'[n] = task[n]
    BY <1>1, <1>2, <1>3
  <1> QED BY <1>1, <1>4, <1>5 DEF Task

LEMMA TypeStep == EvidenceTypeOK /\ [EvidenceNext]_evidenceVars => EvidenceTypeOK'
  <1> SUFFICES ASSUME EvidenceTypeOK, [EvidenceNext]_evidenceVars PROVE EvidenceTypeOK'
    OBVIOUS
  <1> USE LibraryEvidenceAssumption
  <1>t. file \in Nat /\ 0 \in Nat /\ "scan" \in Measurers /\ "import" \in Measurers
    BY DEF EvidenceTypeOK, Measurers
  <1>1. ASSUME NEW t \in AllTiers, ScanLooks(t) PROVE EvidenceTypeOK'
    <2>1. task' \in [Measurers -> Task]
      BY <1>1, <1>t, BeginEffect DEF ScanLooks
    <2> QED BY <1>1, <2>1 DEF ScanLooks, EvidenceTypeOK
  <1>2. CASE ImportLooks
    <2>1. task' \in [Measurers -> Task]
      BY <1>2, <1>t, BeginEffect DEF ImportLooks, AllTiers
    <2> QED BY <1>2, <2>1 DEF ImportLooks, EvidenceTypeOK
  <1>3. CASE ImportLooksSpectral
    <2>1. task' \in [Measurers -> Task]
      BY <1>3, <1>t, BeginEffect, IdleType DEF ImportLooksSpectral, AllTiers, EvidenceTypeOK
    <2> QED BY <1>3, <2>1 DEF ImportLooksSpectral, EvidenceTypeOK
  <1>4. ASSUME NEW m \in Measurers, Measure(m) PROVE EvidenceTypeOK'
    BY <1>4, MeasureEffect DEF Measure, EvidenceTypeOK
  <1>5. ASSUME NEW m \in Measurers, Write(m) PROVE EvidenceTypeOK'
    <2>1. task[m] \in Task
      BY DEF EvidenceTypeOK
    <2>2. Verdict(task[m]) \in Nat /\ task[m].seen \in Nat /\ task[m].stat \in Nat
      BY <2>1 DEF Verdict, Task
    <2>3. task[m].pc = "write" /\ task[m].status \in {"none", "measured", "unmeasured"}
      BY <1>5, <2>1 DEF Write, Task
    <2>4. row' \in Row
      BY <1>5, <2>2, <2>3
      DEF Write, EvidenceTypeOK, Row, upsert_library_evidence, upsert_library_metadata,
          update_library_integrity, update_library_spectral
    <2>5. [Idle EXCEPT !.pc = "spectral"] \in Task
      BY DEF Idle, Task, AllTiers
    <2>6. task' \in [Measurers -> Task]
      BY <1>5, <2>5, IdleType DEF Write, EvidenceTypeOK
    <2> QED BY <1>5, <2>4, <2>6 DEF Write, EvidenceTypeOK
  <1>6. CASE FileChanges
    BY <1>6 DEF FileChanges, EvidenceTypeOK
  <1>7. CASE Upgrade
    <2>1. row' \in Row
      BY <1>7 DEF Upgrade, EvidenceTypeOK, Row
    <2>2. task' \in [Measurers -> Task]
      BY <1>7, IdleType DEF Upgrade
    <2> QED BY <1>7, <2>1, <2>2 DEF Upgrade, EvidenceTypeOK
  <1>8. CASE UNCHANGED evidenceVars
    BY <1>8 DEF evidenceVars, EvidenceTypeOK
  <1> QED BY <1>1, <1>2, <1>3, <1>4, <1>5, <1>6, <1>7, <1>8 DEF EvidenceNext

-----------------------------------------------------------------------------
(* The stat a task stores is never younger than the content it probed. *)

LEMMA ProbeStep == EvidenceInv /\ [EvidenceNext]_evidenceVars => StatBeforeProbe'
  <1> SUFFICES ASSUME EvidenceInv, [EvidenceNext]_evidenceVars PROVE StatBeforeProbe'
    OBVIOUS
  <1> USE DEF EvidenceInv
  <1>t. file \in Nat /\ 0 \in Nat /\ 0 <= file
        /\ "scan" \in Measurers /\ "import" \in Measurers
    BY DEF EvidenceTypeOK, Measurers
  <1>b. ASSUME NEW m \in Measurers, NEW t \in AllTiers, NEW s \in {0, file},
               EvidenceTypeOK, BeginTask(m, t, s), UNCHANGED <<file, row>>
        PROVE  StatBeforeProbe'
    <2>1. s \in Nat /\ s <= file
      BY <1>t
    <2>2. /\ task'[m].stat = s /\ task'[m].seen = 0 /\ task'[m].pc = "measure"
          /\ \A n \in Measurers \ {m} : task'[n] = task[n]
      BY <1>b, <2>1, BeginEffect
    <2>3. \A n \in Measurers :
            /\ task'[n].stat <= file /\ task'[n].seen <= file
            /\ task'[n].pc = "write" => task'[n].stat <= task'[n].seen
      BY <1>t, <2>1, <2>2 DEF StatBeforeProbe
    <2> QED BY <1>b, <2>3 DEF StatBeforeProbe
  <1>1. ASSUME NEW t \in AllTiers, ScanLooks(t) PROVE StatBeforeProbe'
    BY <1>1, <1>t, <1>b DEF ScanLooks
  <1>2. CASE ImportLooks
    BY <1>2, <1>t, <1>b DEF ImportLooks, AllTiers
  <1>3. CASE ImportLooksSpectral
    <2>1. CASE BeginTask("import", "spectral", 0)
      BY <1>3, <2>1, <1>t, <1>b DEF ImportLooksSpectral, AllTiers
    <2>2. CASE task' = [task EXCEPT !["import"] = Idle]
      BY <1>3, <2>2, <1>t DEF ImportLooksSpectral, StatBeforeProbe, Idle, EvidenceTypeOK
    <2> QED BY <1>3, <2>1, <2>2 DEF ImportLooksSpectral
  <1>4. ASSUME NEW m \in Measurers, Measure(m) PROVE StatBeforeProbe'
    <2>1. task[m].stat <= file /\ task[m].stat \in Nat
      BY DEF StatBeforeProbe, EvidenceTypeOK, Task
    <2>2. /\ task'[m].stat = task[m].stat /\ task'[m].seen = file
          /\ \A n \in Measurers \ {m} : task'[n] = task[n]
      BY <1>4, MeasureEffect
    <2>3. \A n \in Measurers :
            /\ task'[n].stat <= file /\ task'[n].seen <= file
            /\ task'[n].pc = "write" => task'[n].stat <= task'[n].seen
      BY <1>t, <2>1, <2>2 DEF StatBeforeProbe
    <2> QED BY <1>4, <2>3 DEF Measure, StatBeforeProbe
  <1>5. ASSUME NEW m \in Measurers, Write(m) PROVE StatBeforeProbe'
    <2>1. /\ task[m].stat \in Nat /\ task[m].seen \in Nat
          /\ task[m].stat <= task[m].seen /\ task[m].seen <= file
          /\ task[m].stat <= file
      BY <1>5 DEF Write, StatBeforeProbe, EvidenceTypeOK, Task
    <2>2. /\ row'.stat <= file /\ row'.codec <= file
          /\ row'.status = "measured" => row'.stat <= row'.codec
      BY <1>5, <1>t, <2>1
      DEF Write, StatBeforeProbe, EvidenceTypeOK, Row, Verdict, upsert_library_evidence,
          upsert_library_metadata, update_library_integrity, update_library_spectral
    <2>3. \A n \in Measurers :
            /\ task'[n].stat <= file /\ task'[n].seen <= file
            /\ task'[n].pc = "write" => task'[n].stat <= task'[n].seen
      BY <1>5, <1>t DEF Write, StatBeforeProbe, EvidenceTypeOK, Idle
    <2> QED BY <1>5, <2>2, <2>3 DEF Write, StatBeforeProbe
  <1>6. CASE FileChanges
    BY <1>6, <1>t DEF FileChanges, StatBeforeProbe, EvidenceTypeOK, Row, Task
  <1>7. CASE Upgrade
    BY <1>7, <1>t DEF Upgrade, StatBeforeProbe, EvidenceTypeOK, Row, Idle
  <1>8. CASE UNCHANGED evidenceVars
    BY <1>8 DEF evidenceVars, StatBeforeProbe
  <1> QED BY <1>1, <1>2, <1>3, <1>4, <1>5, <1>6, <1>7, <1>8 DEF EvidenceNext

LEMMA InductiveInit == EvidenceInit => EvidenceInv
  <1> SUFFICES ASSUME EvidenceInit PROVE EvidenceInv
    OBVIOUS
  <1>1. NoRow \in Row
    BY DEF NoRow, Row
  <1>2. EvidenceTypeOK
    <2>1. file \in Nat \ {0} /\ upgrades \in Nat
      BY DEF EvidenceInit
    <2>2. row \in Row /\ task \in [Measurers -> Task]
      BY <1>1, IdleType, Zenon DEF EvidenceInit
    <2>3. split \in BOOLEAN
      BY DEF EvidenceInit
    <2> QED BY <2>1, <2>2, <2>3 DEF EvidenceTypeOK
  <1>3. StatBeforeProbe
    BY DEF EvidenceInit, StatBeforeProbe, NoRow, Idle
  <1> QED BY <1>2, <1>3 DEF EvidenceInv

\* The strengthened invariant holds for any file history, any set of tiers and
\* any number of sensor upgrades.
THEOREM ProbesAreCovered == EvidenceSpec => []EvidenceInv
  <1>1. EvidenceInv /\ [EvidenceNext]_evidenceVars => EvidenceInv'
    BY TypeStep, ProbeStep DEF EvidenceInv
  <1> QED BY InductiveInit, <1>1, PTL DEF EvidenceSpec

\* library_evidence.is_measured_row_fresh never accepts codec evidence of an
\* earlier content of the file.
THEOREM MetadataIsCurrent == EvidenceSpec => []FreshMetadataIsCurrent
  <1>1. EvidenceInv => FreshMetadataIsCurrent
    BY DEF EvidenceInv, StatBeforeProbe, FreshMetadataIsCurrent, is_measured_row_fresh,
           OnDisk, EvidenceTypeOK, Row
  <1> QED BY ProbesAreCovered, <1>1, PTL

-----------------------------------------------------------------------------
(* Until a split-tier scan runs *)

LEMMA FusedStep == EvidenceInv /\ FusedOnly /\ [EvidenceNext]_evidenceVars => FusedOnly'
  <1> SUFFICES ASSUME EvidenceInv, FusedOnly, [EvidenceNext]_evidenceVars, ~split' PROVE FusedOnly'
    BY DEF FusedOnly
  <1>s. ~split
    BY DEF EvidenceNext, evidenceVars, ScanLooks, ImportLooks, ImportLooksSpectral, Measure, Write,
           FileChanges, Upgrade
  <1> USE DEF EvidenceInv
  <1>t. file \in Nat /\ 0 \in Nat /\ "scan" \in Measurers /\ "import" \in Measurers
    BY DEF EvidenceTypeOK, Measurers
  <1>b. ASSUME NEW m \in Measurers, NEW t \in {"cheap", "spectral"}, NEW s \in Nat,
               EvidenceTypeOK, BeginTask(m, t, s), UNCHANGED row
        PROVE  FusedOnly'
    <2>1. t \in AllTiers
      BY DEF AllTiers
    <2>2. task'[m].tier = t /\ \A n \in Measurers \ {m} : task'[n] = task[n]
      BY <1>b, <2>1, BeginEffect
    <2> QED BY <1>b, <1>s, <2>2 DEF FusedOnly
  <1>1. ASSUME NEW t \in AllTiers, ScanLooks(t) PROVE FusedOnly'
    BY <1>1, <1>s, <1>t, <1>b DEF ScanLooks, AllTiers
  <1>2. CASE ImportLooks
    BY <1>2, <1>t, <1>b DEF ImportLooks
  <1>3. CASE ImportLooksSpectral
    <2>1. CASE BeginTask("import", "spectral", 0)
      BY <1>3, <2>1, <1>t, <1>b DEF ImportLooksSpectral
    <2>2. CASE task' = [task EXCEPT !["import"] = Idle]
      BY <1>3, <1>s, <2>2, <1>t DEF ImportLooksSpectral, FusedOnly, Idle, EvidenceTypeOK
    <2> QED BY <1>3, <2>1, <2>2 DEF ImportLooksSpectral
  <1>4. ASSUME NEW m \in Measurers, Measure(m) PROVE FusedOnly'
    BY <1>4, <1>s, MeasureEffect DEF Measure, FusedOnly
  <1>5. ASSUME NEW m \in Measurers, Write(m) PROVE FusedOnly'
    <2>0. task[m].tier \in {"cheap", "spectral"}
      BY <1>s DEF FusedOnly
    <2>1. row'.integrity_ok = row'.codec
      <3>1. CASE upsert_library_evidence(task[m])
        BY <3>1 DEF upsert_library_evidence, EvidenceTypeOK, Row
      <3>2. CASE update_library_spectral(task[m])
        BY <1>s, <3>2 DEF update_library_spectral, FusedOnly, EvidenceTypeOK, Row
      <3> QED BY <1>5, <2>0, <3>1, <3>2 DEF Write
    <2>2. \A n \in Measurers : task'[n].tier \in {"cheap", "spectral"}
      BY <1>5, <1>s DEF Write, FusedOnly, EvidenceTypeOK, Idle
    <2> QED BY <2>1, <2>2 DEF FusedOnly
  <1>6. CASE FileChanges
    BY <1>6, <1>s DEF FileChanges, FusedOnly
  <1>7. CASE Upgrade
    BY <1>7, <1>s DEF Upgrade, FusedOnly, EvidenceTypeOK, Row, Idle
  <1>8. CASE UNCHANGED evidenceVars
    BY <1>8 DEF evidenceVars, FusedOnly
  <1> QED BY <1>1, <1>2, <1>3, <1>4, <1>5, <1>6, <1>7, <1>8 DEF EvidenceNext

\* As long as only the fused tier has written evidence, the integrity verdict
\* behind integrity_known was measured on the file as it is.
THEOREM FusedIntegrityIsCurrent == EvidenceSpec => []KnownIntegrityIsCurrent
  <1>1. EvidenceInit => FusedOnly
    BY DEF EvidenceInit, FusedOnly, NoRow, Idle
  <1>2. EvidenceInv /\ FusedOnly => KnownIntegrityIsCurrent
    BY DEF EvidenceInv, StatBeforeProbe, FusedOnly, KnownIntegrityIsCurrent,
           is_measured_row_fresh, OnDisk, EvidenceTypeOK, Row
  <1> QED BY ProbesAreCovered, FusedStep, <1>1, <1>2, PTL DEF EvidenceSpec

-----------------------------------------------------------------------------
(* The audio axis *)

\* A failed hard gate is a BLOCK: no score, label or missing track opens it.
LEMMA GateBlocks ==
    ASSUME NEW r \in Release, Plausible(r), Gated(r)
    PROVE  decide(r) = "BLOCK"
  <1>1. CASE codec_mismatch(r)
    <2>1. "codec_mismatch" \in overrides(r) \cap HardGates
      BY <1>1 DEF overrides, HardGates
    <2> QED BY <2>1 DEF decide
  <1>2. CASE ~codec_mismatch(r) /\ validator_error(r)
    <2>1. "validator_error" \in overrides(r) \cap HardGates
      BY <1>2 DEF overrides, HardGates
    <2> QED BY <2>1 DEF decide
  <1>3. CASE ~codec_mismatch(r) /\ ~validator_error(r)
    <2>1. no_audio_files(r)
      BY <1>3 DEF Gated
    <2>2. r.tracks = 0 /\ ~r.fake_hi_res /\ r.verdict \in {"UNKNOWN", "ERROR"}
      BY <2>1 DEF no_audio_files, Plausible
    <2>3. overrides(r) = {"no_audio_files"}
      BY <1>3, <2>1, <2>2 DEF overrides
    <2>4. score(r) = 0
      BY <2>3 DEF score, HardGates
    <2>5. ~is_complete_upgrade(r)
      BY <2>2 DEF is_complete_upgrade, Release
    <2>6. overrides(r) \cap HardGates = {} /\ "fake_hi_res" \notin overrides(r)
      BY <2>3 DEF HardGates
    <2> QED BY <2>2, <2>4, <2>5, <2>6 DEF decide
  <1> QED BY <1>1, <1>2, <1>3

\* A release that was failed or suspected is not accepted on its own evidence.
LEMMA SuspectIsHeld ==
    ASSUME NEW r \in Release, Suspect(r)
    PROVE  decide(r) \notin Accepting
  <1>1. CASE overrides(r) \cap HardGates # {}
    BY <1>1 DEF decide, Accepting
  <1>2. CASE overrides(r) \cap HardGates = {} /\ r.fake_hi_res
    <2>1. ~codec_mismatch(r) /\ ~validator_error(r)
      BY <1>2 DEF overrides, HardGates
    <2>2. "fake_hi_res" \in overrides(r)
      BY <1>2, <2>1 DEF overrides
    <2> QED BY <1>2, <2>2 DEF decide, Accepting
  <1>3. CASE overrides(r) \cap HardGates = {} /\ ~r.fake_hi_res
    <2>1. r.verdict \in {"FAKE_CERTAIN", "FAKE"}
      BY <1>3 DEF Suspect
    <2> QED BY <1>3, <2>1 DEF decide, Accepting
  <1> QED BY <1>1, <1>2, <1>3

\* compare() lets only a valid and authentic candidate pass, and neither can be
\* said of a suspect one.
LEMMA WinnerIsClean ==
    ASSUME NEW c \in Case,
           _candidate_quality(c).valid, _candidate_quality(c).authentic
    PROVE  c.release.verdict = "AUTHENTIC" /\ ~c.release.fake_hi_res
  <1> DEFINE r == c.release
  <1>1. overrides(r) \cap (HardGates \cup {"no_audio_files"}) = {}
    BY DEF _candidate_quality
  <1>2. r.verdict = "AUTHENTIC" /\ "fake_hi_res" \notin overrides(r)
    BY DEF _candidate_quality
  <1>3. ~codec_mismatch(r) /\ ~validator_error(r)
    BY <1>1 DEF overrides, HardGates
  <1>4. ~r.fake_hi_res
    BY <1>2, <1>3 DEF overrides
  <1> QED BY <1>2, <1>4

\* What the identity axis and the track-count guard let pass was accepted on the
\* audio axis, of a release that is the right one.
LEMMA AcceptedOnAudio ==
    ASSUME NEW audio, NEW r,
           apply_track_count_guard(combine_audio_identity_decision(audio, r.identity), r)
               \in Accepting
    PROVE  /\ audio \in Accepting
           /\ r.identity \notin {"WRONG_ALBUM", "AMBIGUOUS_EDITION", "INSUFFICIENT_EVIDENCE"}
  <1>1. combine_audio_identity_decision(audio, r.identity) \in Accepting
    BY DEF apply_track_count_guard, Accepting
  <1> QED BY <1>1 DEF combine_audio_identity_decision, Accepting

\* The audio decision before measured evidence is asked.
Ripped(c) ==
    IF c.cd_rip_scoring THEN _apply_cd_rip_scoring(decide(c.release), c.rip)
    ELSE decide(c.release)

LEMMA Stages ==
    ASSUME NEW c, NEW q
    PROVE  _compute_verification(c, q) =
              apply_track_count_guard(
                 combine_audio_identity_decision(
                    _apply_measured_existing(Ripped(c), c, q), c.release.identity),
                 c.release)
  BY DEF _compute_verification, Ripped

\* Where measured evidence counts, only a candidate that wins or draws is
\* accepted.
LEMMA AcceptedWins ==
    ASSUME NEW c, NEW q, MeasuredCounts(c, q), _compute_verification(c, q) \in Accepting
    PROVE  Comparison(c, q) \notin {"downgrade", "review"}
  <1>1. _apply_measured_existing(Ripped(c), c, q) \in Accepting
    BY Stages, AcceptedOnAudio
  <1>2. _map_measured_verdict(Ripped(c), Comparison(c, q)) \in Accepting
    BY <1>1 DEF _apply_measured_existing
  <1> QED BY <1>2 DEF _map_measured_verdict, Accepting

\* Such a candidate is valid and authentic.
LEMMA WinnerIsValid ==
    ASSUME NEW c, NEW q, Comparison(c, q) \notin {"downgrade", "review"}
    PROVE  _candidate_quality(c).valid /\ _candidate_quality(c).authentic
  <1> DEFINE k == _candidate_quality(c)
  <1>1. k.valid \in BOOLEAN /\ k.authentic \in BOOLEAN
    BY DEF _candidate_quality
  <1> HIDE DEF k
  <1> QED BY <1>1 DEF Comparison, compare, k

-----------------------------------------------------------------------------
(* The gates *)

\* server._compute_verification: hard gates, identity and the ban on fakes
\* survive every later adjustment of the decision.
THEOREM GatesAlwaysHold == EvidenceSpec => []GatesHold
  <1>1. GatesHold
    <2> SUFFICES ASSUME NEW q \in Histories, NEW c \in Cases
                 PROVE  LET decision == _compute_verification(c, q) IN
                        /\ Gated(c.release) \/ c.release.identity = "WRONG_ALBUM"
                              => decision = "BLOCK"
                        /\ c.release.identity \in {"AMBIGUOUS_EDITION", "INSUFFICIENT_EVIDENCE"}
                              => decision \notin Accepting
                        /\ Suspect(c.release) /\ decision \in Accepting
                              => c.cd_rip_scoring /\ c.rip = "verified" /\ ~MeasuredCounts(c, q)
      BY DEF GatesHold
    <2>c. c \in Case /\ c.release \in Release /\ Plausible(c.release)
      BY MeasuredDecisionAssumption DEF Case
    <2>1. ASSUME Gated(c.release) PROVE _compute_verification(c, q) = "BLOCK"
      <3>1. Ripped(c) = "BLOCK"
        BY <2>1, <2>c, GateBlocks DEF Ripped, _apply_cd_rip_scoring, Accepting
      <3>2. _apply_measured_existing(Ripped(c), c, q) = "BLOCK"
        BY <3>1 DEF _apply_measured_existing, _map_measured_verdict, Accepting
      <3> QED BY <3>2, Stages
                 DEF combine_audio_identity_decision, apply_track_count_guard, Accepting
    <2>2. ASSUME c.release.identity = "WRONG_ALBUM"
          PROVE  _compute_verification(c, q) = "BLOCK"
      BY <2>2, Stages DEF combine_audio_identity_decision, apply_track_count_guard, Accepting
    <2>3. ASSUME c.release.identity \in {"AMBIGUOUS_EDITION", "INSUFFICIENT_EVIDENCE"}
          PROVE  _compute_verification(c, q) \notin Accepting
      BY <2>3, Stages, AcceptedOnAudio
    <2>4. ASSUME Suspect(c.release), _compute_verification(c, q) \in Accepting
          PROVE  c.cd_rip_scoring /\ c.rip = "verified" /\ ~MeasuredCounts(c, q)
      <3>1. ~MeasuredCounts(c, q)
        <4> SUFFICES ASSUME MeasuredCounts(c, q) PROVE FALSE
          OBVIOUS
        <4>1. c.release.verdict = "AUTHENTIC" /\ ~c.release.fake_hi_res
          BY <2>4, <2>c, AcceptedWins, WinnerIsValid, WinnerIsClean
        <4> QED BY <4>1, <2>4 DEF Suspect
      <3>2. _apply_measured_existing(Ripped(c), c, q) \in Accepting
        BY <2>4, Stages, AcceptedOnAudio
      <3>3. Ripped(c) \in Accepting
        BY <3>1, <3>2 DEF _apply_measured_existing
      <3>4. decide(c.release) \notin Accepting
        BY <2>4, <2>c, SuspectIsHeld
      <3>5. c.cd_rip_scoring
        BY <3>3, <3>4 DEF Ripped
      <3>6. c.rip = "verified"
        BY <3>3, <3>4, <3>5 DEF Ripped, _apply_cd_rip_scoring, Accepting
      <3> QED BY <3>1, <3>5, <3>6
    <2> QED BY <2>1, <2>2, <2>3, <2>4
  <1> QED BY <1>1, PTL

-----------------------------------------------------------------------------
(* The comparison *)

LEMMA TierInRange ==
    ASSUME NEW lossless, NEW depth \in Nat, NEW rate \in Nat
    PROVE  tier_rank(lossless, depth, rate) \in Tiers
  BY DEF tier_rank, Tiers

\* A set of tiers has a weakest one.
LEMMA WeakestIsThere ==
    ASSUME NEW T \in SUBSET Tiers, T # {}
    PROVE  Weakest(T) \in T
  <1>1. \E t \in T : \A u \in T : t <= u
    <2>1. CASE 0 \in T BY <2>1 DEF Tiers
    <2>2. CASE 0 \notin T /\ 1 \in T BY <2>2 DEF Tiers
    <2>3. CASE 0 \notin T /\ 1 \notin T /\ 2 \in T BY <2>3 DEF Tiers
    <2>4. CASE 0 \notin T /\ 1 \notin T /\ 2 \notin T
      <3>1. ASSUME NEW u \in T PROVE u = 3
        <4>1. u \in 0 .. 3 /\ u # 0 /\ u # 1 /\ u # 2 BY <2>4 DEF Tiers
        <4> QED BY <4>1
      <3>2. PICK t \in T : TRUE OBVIOUS
      <3>3. \A u \in T : t <= u BY <3>1, <3>2
      <3> QED BY <3>3
    <2> QED BY <2>1, <2>2, <2>3, <2>4
  <1> QED BY <1>1 DEF Weakest

LEMMA CandidateTier ==
    ASSUME NEW c \in Case
    PROVE  _candidate_quality(c).tier \in Tiers
  <1> DEFINE valid == overrides(c.release) \cap (HardGates \cup {"no_audio_files"}) = {}
             T == {tier_rank(valid, f.bit_depth, f.sample_rate) : f \in c.files}
  <1>1. T \in SUBSET Tiers
    <2> SUFFICES ASSUME NEW f \in c.files
                 PROVE  tier_rank(valid, f.bit_depth, f.sample_rate) \in Tiers
      OBVIOUS
    <2>1. f.bit_depth \in Nat /\ f.sample_rate \in Nat
      BY DEF Case
    <2> HIDE DEF valid
    <2> QED BY <2>1, TierInRange
  <1>2. c.files # {} => T # {}
    OBVIOUS
  <1>3. _candidate_quality(c).tier = IF c.files = {} THEN 0 ELSE Weakest(T)
    BY DEF _candidate_quality
  <1> HIDE DEF T
  <1>4. c.files # {} => Weakest(T) \in Tiers
    BY <1>1, <1>2, WeakestIsThere
  <1> QED BY <1>3, <1>4 DEF Tiers

\* The roll-up's weakest tier is that of the files on disk: a row that takes
\* part has the metadata of the content now there.
LEMMA RollUpIsCurrent ==
    ASSUME FreshMetadataIsCurrent, NEW c, NEW q
    PROVE  {TierOf(t) : t \in Measured(FreshRows(c, q))} = TiersOnDisk(c, q)
  <1>1. CASE is_measured_row_fresh
    <2> DEFINE v == _decision_evidence_view(q)
    <2>1. row.status = "measured" /\ row.codec = file
      BY <1>1 DEF FreshMetadataIsCurrent, is_measured_row_fresh
    <2>2. v.status = "measured"
          /\ TierOf(v) = tier_rank(q[file].lossless, q[file].bit_depth, q[file].sample_rate)
      BY <2>1 DEF _decision_evidence_view, TierOf
    <2> HIDE DEF v
    <2>3. FreshRow(q) = {v}
      BY <1>1 DEF FreshRow, v
    <2>4. Measured(FreshRows(c, q)) = Measured(c.others) \cup {v}
      BY <2>2, <2>3 DEF Measured, FreshRows
    <2> QED BY <2>2, <2>3, <2>4 DEF TiersOnDisk
  <1>2. CASE ~is_measured_row_fresh
    <2>1. FreshRow(q) = {}
      BY <1>2 DEF FreshRow
    <2> QED BY <2>1 DEF TiersOnDisk, FreshRows, Measured
  <1> QED BY <1>1, <1>2

LEMMA TiersInRange ==
    ASSUME EvidenceInv, NEW c \in Case, NEW q \in Histories
    PROVE  TiersOnDisk(c, q) \in SUBSET Tiers
  <1>1. q[file] \in Content
    BY MeasuredDecisionAssumption DEF Histories, Relevant, EvidenceInv, EvidenceTypeOK
  <1>2. tier_rank(q[file].lossless, q[file].bit_depth, q[file].sample_rate) \in Tiers
    BY <1>1, TierInRange DEF Content
  <1>3. ASSUME NEW t \in Measured(c.others) PROVE TierOf(t) \in Tiers
    <2>1. t.bit_depth \in Nat /\ t.sample_rate \in Nat
      BY DEF Measured, Case, Track
    <2> QED BY <2>1, TierInRange DEF TierOf
  <1> QED BY <1>2, <1>3 DEF TiersOnDisk

\* No row that is read back from the database says `integrity_ok is False'.
LEMMA NothingIsInvalid ==
    ASSUME NEW c \in Case, NEW q
    PROVE  \A t \in FreshRows(c, q) : t.integrity_ok # "False"
  <1>1. ASSUME NEW t \in c.others PROVE t.integrity_ok # "False"
    BY DEF Case
  <1>2. ASSUME NEW t \in FreshRow(q) PROVE t.integrity_ok # "False"
    <2>1. t = _decision_evidence_view(q)
      BY DEF FreshRow
    <2> QED BY <2>1 DEF _decision_evidence_view, Stored
  <1> QED BY <1>1, <1>2 DEF FreshRows

\* server._apply_measured_existing: with measured evidence in force nothing is
\* imported unseen over files that are better on disk at that moment, nor
\* anything that is not authentic.
THEOREM BetterIsKept == EvidenceSpec => []NeverReplacesBetter
  <1>1. EvidenceInv /\ FreshMetadataIsCurrent => NeverReplacesBetter
    <2> SUFFICES ASSUME EvidenceInv, FreshMetadataIsCurrent, NEW q \in Histories, NEW c \in Cases,
                        MeasuredCounts(c, q), _compute_verification(c, q) \in Accepting
                 PROVE  /\ c.release.verdict = "AUTHENTIC" /\ ~c.release.fake_hi_res
                        /\ \/ CalledFake(c, q)
                           \/ _candidate_quality(c).tier >= Weakest(TiersOnDisk(c, q))
      BY DEF NeverReplacesBetter
    <2>c. c \in Case
      BY MeasuredDecisionAssumption
    <2>1. Comparison(c, q) \notin {"downgrade", "review"}
      BY AcceptedWins
    <2>2. _candidate_quality(c).valid /\ _candidate_quality(c).authentic
      BY <2>1, WinnerIsValid
    <2>3. c.release.verdict = "AUTHENTIC" /\ ~c.release.fake_hi_res
      BY <2>2, <2>c, WinnerIsClean
    <2>4. ASSUME ~CalledFake(c, q)
          PROVE  _candidate_quality(c).tier >= Weakest(TiersOnDisk(c, q))
      <3> DEFINE k == _candidate_quality(c)
                 e == album_quality(FreshRows(c, q))
      <3>1. e.min_tier = Weakest(TiersOnDisk(c, q))
        BY RollUpIsCurrent DEF album_quality
      <3>2. TiersOnDisk(c, q) # {}
        <4>1. PICK t \in Measured(FreshRows(c, q)) : TRUE
          BY DEF MeasuredCounts
        <4>2. TierOf(t) \in TiersOnDisk(c, q)
          BY RollUpIsCurrent
        <4> QED BY <4>2
      <3>3. e.min_tier \in Tiers
        BY <3>1, <3>2, <2>c, TiersInRange, WeakestIsThere
      <3>4. ~e.any_invalid
        BY <2>c, NothingIsInvalid DEF album_quality, Measured
      <3>5. ~(SpectralOn /\ e.any_fake)
        BY <2>4 DEF album_quality, Measured, CalledFake
      <3>6. k.tier \in Tiers /\ k.valid /\ k.authentic
        BY <2>c, <2>2, CandidateTier
      <3> HIDE DEF k, e
      <3>7. compare(k, e, c.release.expected_tracks > 0
                          /\ c.release.existing_tracks < c.release.expected_tracks,
                    SpectralOn, c.require_integrity) \notin {"downgrade", "review"}
        BY <2>1 DEF Comparison, k, e
      <3>8. k.tier >= e.min_tier
        BY <3>3, <3>4, <3>5, <3>6, <3>7 DEF compare, Tiers
      <3> QED BY <3>1, <3>8 DEF k
    <2> QED BY <2>3, <2>4
  <1> QED BY <1>1, ProbesAreCovered, MetadataIsCurrent, PTL
=============================================================================
