# Mintarr: TLA+ models, checks and proofs

Mintarr stands between Lidarr and the places music comes from. Lidarr takes it for an
indexer and for a SABnzbd; Mintarr downloads a release, verifies that its audio is what it
claims to be, and either imports it through Lidarr, blocks it, or holds it for review.
This directory models the parts of it in which several actors share durable state, checks
them with TLC and proves the central results with TLAPS.

`PROJECT.json` lists runs, mutants, the map from definitions to source lines, hazards,
findings and theorems. This file explains them.

## 1. Inventory

### Actors

The container runs one synchronous gunicorn worker (`Dockerfile`, `-w 1`), so **HTTP handlers
are serialised** among themselves. Beside them, in the same process, run the **import worker**
thread (`worker.py`) with a **heartbeat thread** per job, the **library-scan thread**
(`library_scan_worker.py`) with a thread pool and the **scan scheduler**. Overdue reviews
expire once, at process start (`server.py` 6973). Lidarr, the download backends, FLAC
Detective and the filesystem act on their own. Every function of `state_db.py` runs under
`state_db._lock`, so it is one step to the other threads; it catches database errors, logs them
and reports "nothing done". It is not one SQLite transaction: the connection is opened with
`isolation_level=None` (`state_db.py` 256), so the statements commit one by one, and a crash or
an error may part them. Most functions have one statement that writes. Of those with more,
`enqueue_library_scan` is modelled statement by statement; `recover_stale_running_jobs` and
`reconcile_orphaned_library_scan_runs` write row by row what the next call or boot does again
for the rows that were missed; `upsert_sensor_runs` and `upsert_file_evidence` write tables that
no model has. The process may die between any two steps and is restarted.

### Components

| component (source under `src/app`) | state | operations | correct means |
|---|---|---|---|
| job table and import worker (`state_db.py`, `worker.py`) | table `jobs`; the worker's copy of its job | enqueue with dedupe, claim, heartbeat, outcome, retry, cancel, recovery | one active job per key, attempts bounded, the worker owns its row, cancellations kept, everything settles |
| library scan (`library_scan_worker.py`, `library_scan_scheduler.py`) | tables `library_scan_runs`, `library_scan_items`; thread, pool | start, schedule, cancel, fetch, wait for imports, measure, tally, reconcile | one live scan, run and job agree, yields to imports, stops when asked, complete means complete |
| library evidence (`library_evidence.py`) | table `library_evidence` | four tiers of measurement, freshness tests | a verdict that passes as fresh was measured on the file that is there |
| backend lane (`server.py` 142-220, 989-1408, 2332-2446, 4980-5099) | `backend_jobs`, `_jobs` / `jobs.json`, verification record, ingest job | addurl, poll, ingest, mirror, remove, discard | durable first, removal reaches the ingest, reviews stay visible, no row stuck |
| import flow (`server.py` 5135-6215, 2643-2907, `pipeline.py`) | projection, record, sidecar, Lidarr's album and queue | normalise, verify, decide, release switch, ManualImport, rescue | cancel stops the library mutation, release switch undone, outcome recorded |
| review lifecycle (`server.py` 6434-7609) | record and archives, folder, projection, jobs, promote lock | create, promote, retry, switch release, discard, reconcile, expire | discarded stays discarded, files kept have an action that works, the hold follows the review |
| grab intake and album holds (`server.py` 821-985, 1573-2126, 4858-5099; `state_db.py` 1662-1894) | `_jobs`, `jobs`, `album_holds`, what Lidarr was told | search, addurl, folder ingests, delete, hold, clear | a jid given out is worked on, a removal sticks, a held album is not offered |
| verification policy, library comparison (`verification.py`, `library_comparison.py`, `server.py` 3374-3899, 4142-4287) | none; reads `library_evidence` | score, overrides, rip, measured library, identity, track counts | a failed gate stays failed, nothing better on disk is replaced unseen |
| backup and restore (`backup.py`, `restore.py`, `server.py` 7745-7800) | database, evidence files, marker, staged and safety zips, status file | back up, export, prune, stage, cancel, apply at boot, recover | closed after a torn apply, safety backup first, accepted requests kept, truthful status |
| adapters, connectors, backends, dashboard, facade, catalogue, CD evidence, notifications | configuration, caches | external calls, formatting | see section 7 |

### Interactions

* Handlers enqueue into `jobs`; the import worker claims everything but `library_scan`,
  the scan thread claims only that. The import worker's recovery sweeps **all** expired
  leases, the scan's too.
* The scan waits while any import job is active (`count_active_jobs`), and so does the
  scheduler.
* A backend release is spread over five places, each written on its own: `backend_jobs`,
  `jobs.json`, the record, the ingest job, and the external systems. The poll (inside
  Lidarr's queue request) writes the first two; the ingest executor mirrors its outcome into
  the first when it is done.
* A review is a record on disk, a folder, a projection and a queue entry at Lidarr. Promote,
  retry, release switch, discard, reconciliation and expiry each read the record once and
  later write back what they read; only the importers and the creation of a review take the
  release's promote lock.
* A grab is known by its jid to the projection, to `jobs` and to Lidarr, written one after
  another by the intake and taken back one after another by the removal, with the import
  worker beside both.
* Scan tiers and the import path write the same `library_evidence` row, and the import
  decision reads it.
* A restore is staged by one process and applied by the next, before its workers start; all
  the two have in common is on disk. Whether the workers start is the boot's decision.

### What is hard

Outcome writes that do not look at the row's state; a retry that resets the cancel flag;
flags read before and used after another actor's step; two transactions per logical change;
a shared freshness basis for independent verdicts; crashes between a durable write and the
job it announces; errors swallowed in every transaction; waits without a heartbeat. The
list with lines is `hazards` in `PROJECT.json`. (A "transaction" below is what a `state_db`
function does under its lock.)

## 2. Modules

| module | models | built on |
|---|---|---|
| `JobStore` | the functions of `state_db.py` on `jobs`, one operator each | |
| `JobContract` | abstract: what the queue promises | |
| `JobQueue` | `worker.py` over `JobStore` | refines `JobContract` |
| `LibraryScan` | scan thread, pool, scheduler, handlers, the import worker's recovery | `JobStore` |
| `LibraryEvidence` | one evidence row, its measurers, the file under them | |
| `BackendLane` | one backend release over its five places | `JobStore` |
| `ImportFlow` | one grab job from claim to verdict: `pipeline.py` and `_trigger_lidarr_import` | `JobStore` |
| `ReviewLifecycle` | one release after its first verdict, to promotion, discard or expiry | `JobStore` |
| `GrabIntake` | search, grab, removal and album hold | `JobStore` |
| `VerificationPolicy` | `verification.py` and the rip and track-count adjustments, as operators | |
| `LibraryComparison` | `library_comparison.py`, as operators | |
| `MeasuredDecision` | `_compute_verification` over the evidence row | composes `LibraryEvidence`, `LibraryComparison`, `VerificationPolicy` |
| `Restore` | backups, and a restore from the request to the boot that applies it | |
| `MC*` | the constants TLC uses | |
| `JobStoreProofs` | lemmas about the jobs table, shared by the proofs built on it: types, and what each transaction keeps of a row | `JobStore` |
| `JobQueueProofs`, `LibraryProofs` (about `LibraryScan`, `LibraryEvidence` and `MeasuredDecision`), `BackendLaneProofs`, `GrabIntakeProofs`, `ImportFlowProofs`, `ReviewLifecycleProofs`, `RestoreProofs` | theorems | the module named, `JobStoreProofs` |

### JobStore and JobQueue

A row is a record of the columns the queue decides on. Time is reduced to the comparisons
the queries make: `lease` says whether `lease_expires_at` is ahead of the clock or behind,
`due` whether `next_attempt_at` has come; the clock reaching either is an action. Ids grow,
so they also order rows by `created_at`. An operator `f` models the function `f` of
`state_db.py` as a whole; `enqueue_job(k, j)` is "returns j".

`JobQueue` adds the worker's position in `_worker_loop` and `_execute_job` between two
transactions, and its copy of the row (`attempts` is read from the copy when a failure is
classified, as in the code). A swallowed database error is an alternative wherever the
caller goes on regardless, and spends one of `MaxFaults`; where the caller only polls again
it is a stutter. Whether an executor returns, raises, or notices a cancellation is the
environment's choice, and so are the words `_is_transient_failure` looks for. `asked`,
`starts` and `worker.doomed` are ghosts.

`JobContract` knows nothing of workers, leases or transactions: a job waits, is owned, is
handed back with a take to spare or settled for good, and is cancelled only if asked. The
mapping reads `running` and `cancelling` as owned and `attempts` as takes.

### LibraryScan

`enqueue_library_scan` inserts the run, inserts its job and writes the job's id into the run. To
the other threads that is one step (`CreateScan`), which a crash or a swallowed error may end
after the first or the second statement (`CreateOrFail`, `Crash`). The run then has no job id
(`job = 0`); the job knows its run by its payload. Boot takes such a run for orphaned
(`Orphaned`), the thread that claims the job does not. Progress, terminal and reconciling writes
may each be lost, and the scan goes on with its own counters; crashes and lost writes together
are bounded by `MaxFaults`. The thread's positions are the points of
`_execute_library_scan_job` between transactions; a tier scan keeps counts of items being measured (`flying`), measured
(`ready`) and being tallied (`batch`), since which item it is decides nothing. The spectral
loop has its two waits, the second inside the item's `try`. The cancel request is two
actions with everything in between. Leases run out only where no heartbeat is sent: after a
crash, and during the inventory fetch; a heartbeat that is lost to a database error elsewhere
is not modelled. `late` and `extra` count measurements begun since
imports became active, and since the cancel flag went up.

### LibraryEvidence

One row and one file, whose contents are numbered; a verdict is the number of the content
it was measured on, so "current" is an equation. A measurer reads the row and stats the
file, measures the content it then finds, and writes, in three steps. A sensor version is
reduced to "equals that of the running code"; a deployment clears one. `split` remembers
whether a metadata-only or integrity-only scan has begun. Its specification is `EvidenceSpec`, its types `EvidenceTypeOK`: `LibraryProofs`
extends this module beside `LibraryScan`.

### BackendLane

One release (or several) with the lane row, the projection, the record, the ManualImport
command and the ingest job. Handlers are one at a time and stop between their transactions
(`http`); the import worker stops at the checkpoints of the pipeline, at the last gate
before the command, after the command, and on both sides of the mirror's read and write.
The pipeline's many outcomes are one action per effect on the five places. A crash may cost
`jobs.json`, which is rewritten in place; boot fails projections that look stale.

### ImportFlow

One job, its two attempts, and the worker's position between two requests, file operations or
checks of the cancel flag. The release's audio is one unit in the raw or the output folder;
the record is a file in one of them or in an archive, so `Prepare`, which removes an old output
folder, removes a record with it, and `Found` looks where `_find_verification_sidecar` does.
That removal, and the move after it, go file by file: an exception or a crash may leave any
part behind (`CutShort`), the record of audio that is gone too.
Each branch of `_trigger_lidarr_import` is an action or a disjunct: the three ways to block
(`Block`), the review hold, the release switch album by album (a switch that times out may
have happened and is not remembered), the candidate lookup, the last gate, the command (which
may reach Lidarr although the request raises), the wait, the question whether the command is
still pending, the rescue (its look at the cancel flag, then, two requests later, its copy, then
its rescan), the failing ends, the restore and the queue cleanup.
`import_to_lidarr` catching an exception is `ImportRaises`; the job then completes if there is
a record and raises otherwise, and is retried when its error text reads transient. Beside the
worker run the operator's cancel, Lidarr's command queue, the two halves of
`_reconcile_pending_import`, crash (which may cost `jobs.json`) and boot. `config` fixes whether V2 verification is on and
whether the album already had files. `begun` counts library mutations begun after the cancel.

### ReviewLifecycle

One release, from the moment its review is created (or its accepted import failed or is
pending). There are two importers: the worker with its promote and retry jobs, and a request
that imports in its own thread, because the operator switched the release or SQLite was not
available. Each holds in `rec` and `path` the record as it read it and where, and `Finish`
writes that copy back; so do `discard` and `refresh`, which take no lock. `side` has a record
per place (output folder, discarded, expired), and `Find` looks in the order of
`_find_verification_sidecar`. A record in the output folder goes with the folder, and writing
one makes the folder. The import itself is `_run_manual_import_only`, step by step: `Lookup`,
`Post`, `Wait`, `CheckPending`, `Rescue`, `Copy`, `Rescan`. A promotion writes the new decision
before it (`Act`). A crash may cost `jobs.json`; `config.lost` remembers that it did, and the
projection is gone until somebody makes a new one, without the hold. `config.old` says that the hold period is over, which only `Boot` looks at.
`blocklisted` is Lidarr's side; `_blocklist_grab` may not find the grab and say nothing.

### GrabIntake

The intake is dedupe, publish, enqueue, confirm, one transaction each, and with SQLite
unavailable a thread of its own for TIDAL. The removal is four steps: find the job, flag it,
create the hold, hide the projection. Handlers are serialised (`handler`), the worker, the
direct threads, crash and boot run between any two of their steps. A crash may cut short the
rewriting of `jobs.json` and so turn every projection into `LostProjection`; a worker that takes
the job up again makes a new, visible one. What the pipeline leaves in
the projection is `Ended`; how it gets there is `ImportFlow`'s subject. `told` is what Lidarr
got as an answer, `offers` what a search gave it and it may still send. `banned` and `removed`
are ghosts: since when the album should not be offered, and which removals were answered.

### VerificationPolicy, LibraryComparison, MeasuredDecision

`VerificationPolicy` has a candidate as a record of what `decide` and its callers look at
(verdict of Audio Detective, the gates, counts of tracks, bit rates, identity) and each
function as an operator: `overrides` and `score` (`apply_overrides`), `decide`,
`_apply_cd_rip_scoring`, `combine_audio_identity_decision`, `apply_track_count_guard`.
`LibraryComparison` has `tier_rank`, `album_quality`, which rolls up the fresh rows of an
album, and `compare`, whose order of tests is the code's. Rows keep what SQLite gives back
("0", "1", "None") apart from Python's `False`, because `album_quality` asks for `is False`.

`MeasuredDecision` puts both over the state machine of `LibraryEvidence`: in every state in
which the import thread, done with measuring, may decide, `_compute_verification(c, q)` is the
decision for a case `c` (candidate, rip, the other tracks' rows, settings) if the past
contents of the file were like `q`. A verdict in the row is the number of the content it was
measured on, so a stale one speaks of another quality than that of the file. The decision
writes no shared state, so it is a function of the state and no action. `Plausible` restricts
candidates: a validator that was given no audio suspects none.

### Restore

The database and every evidence file are entries with a version. `log` is the write-ahead log
beside the database: replacing the database makes the old one's log stale, unlinking it is a
step of its own that may fail unnoticed (`kept`), and when the database is next opened (`init`)
a stale log takes effect, so that the database is not the zip's. A backup copies them one at a
time while the process works on. `POST /restore` is two steps, the zip and then the marker
(`StageCopy`, `StageMark`), `DELETE /restore` likewise. A boot is one thread: overdue reviews
expire (`ExpireReviews`), then the marker is looked at, with one action for every way out of
`_apply_pending_restore_at_boot` (nothing to do, interrupted before, switched off, unreadable)
and for every stage of the apply (validate again, safety backup, mark as applying, replace
entry by entry, clear the marker, report). It may die between any two (`Stop`), fail
preflight, or fail in the middle. `Report` may go wrong, since writing the status swallows its
errors. `Recover` is the operator, who removes the marker after putting back the safety
backup. `Torn` says that some but not all of the entries were replaced. `replaced`, `before`,
`applied`, `settled` and `misread` are observers; `misread` remembers that a boot met an
applying marker that it could not read, which starts the workers (section 4).

## 3. Runs

| run | constants | result |
|---|---|---|
| `JobQueue` | 2 jobs, 4 keys, 1 crash, 1 database error, fair | holds |
| `JobQueue_stuck_cancelling` | 2 jobs, 1 crash, fair | `EveryJobSettles` violated |
| `LibraryScan` | 2 runs, 2 jobs, pool of 2, 2 files, 1 crash or database error | holds |
| `LibraryEvidence_stale_spectral` | 2 contents | `FreshSpectralIsCurrent` violated |
| `MeasuredDecision` | 3 contents of 3 qualities, 1 sensor upgrade, 19 cases | holds |
| `MeasuredDecision_defect` | 2 contents, the same cases | `DefectIsUpgrade` violated |
| `BackendLane` | 1 release, 2 removals, 1 cancel, 2 crashes, 1 error, fair | holds |
| `ImportFlow` | 2 attempts, 2 albums, 1 cancel, 1 crash, 2 failed requests, V2 on and off | holds |
| `ImportFlow_late_import` | 1 album, 1 cancel, nothing fails | `FailedMeansNotImported` violated |
| `ReviewLifecycle` | 2 jobs, 2 attempts, 1 album, 2 requests, 1 restart, 1 cancel, crash or failure | holds |
| `Restore` | 2 entries, 2 restores (symmetric), 2 changes, 3 boots, 2 backups, retention 1 | holds |
| `GrabIntake` | 2 jobs, 2 jids, a release and a folder, 3 requests, 1 crash or failure | holds |

**Why the bounds are enough.** Two job rows let a key be enqueued again while its first job
retries, is recovered or is being cancelled, which is every way two active rows could come
about, and the theorems lift the bound. With four keys there are two priorities, a retryable
type and one that is not, and a type without an executor. Two attempts are the smallest budget
in which a retry, a recovery and their sum differ. A pool of two over two files fills the
pool, tallies a batch of two and ends with items in flight; two runs make a second scan beside
a live or an abandoned one. A crash and a lost write are met one at a time; the theorems have
any number of both. Three contents let a row, a measurer and the disk differ pairwise.
Two removals meet each other, and two crashes let the second hit the recovery of the first.
One release suffices in `BackendLane` because actions of different releases share only the
worker and the handler slot. In `ImportFlow` two attempts let a second command meet the first,
two albums let a restore be half done, and two failures let a request fail while the effect of
an earlier one is pending. In `ReviewLifecycle` two requests are any two of promote, retry,
switch, discard and reconcile against each other and against the worker, the restart lets the
review expire after them, and the one disturbance may be a cancel, a crash or a failing
request at any point. In `GrabIntake` three requests reach a second removal after the first
one's hold was cleared or ran out; two jids are enough since one that was withdrawn is drawn
again. In `Restore` two entries are the fewest that can be torn apart, two restores let one be
requested, cancelled or staged beside the other, three boots let one die in the apply, the
next find its marker and a third follow the operator's recovery, and a retention of one makes
the second backup prune the first. In `MeasuredDecision` the qualities are a CD track that
does not decode, a hi-res one and a fake of it, so a stale verdict errs in either direction;
the cases vary a sound release in each input that decides (verdict, fake signal, identity,
counts, gates, rip, other tracks, settings), one or two at a time, and the theorems lift all
of these bounds.

**Deadlock** is checked where the system never stops: recovery, heartbeat and polls keep it
going. In `BackendLane`, `ImportFlow`, `ReviewLifecycle` and `GrabIntake` a settled release, and in
`Restore` a process that is down for good, leaves nothing to do once the bounds are spent, so
`CHECK_DEADLOCK FALSE`.

**What the passing runs show.** `JobQueue`: dedupe, attempt budget, ownership, cancellations
that are neither forgotten nor overlooked (`CancelHolds`), refinement of the contract, and
that a queued or running job settles or is asked to cancel. `LibraryScan`: no second scan
beside a live one even when recovery has failed its job, and as long as no database error was
swallowed no orphaned run after boot (`OneLiveScan`), nothing counted twice or lost, at most one
measurement after a cancel or an arriving import (`StopsWithinOneItem`), and no verdict revised,
whatever writes are lost. A run that a crash left without its job's id is exempt from the first
and the last (section 4). `MeasuredDecision`: metadata that passes as fresh is current, and so is
integrity until a split-tier scan runs; where measured evidence counts, nothing below the
weakest track as it is on disk at the decision, and nothing that is not authentic, is imported
unseen; and no rip, measured upgrade or missing track rescues what failed a gate.
`BackendLane`: no ingest job under a row a poll would ingest again, a recorded removal reaches
the ingest and stops it at the last gate, a pending review is shown to Lidarr, and without
crash, page cancel or error no row stays in importing. `ImportFlow`: after a cancel at most
the mutation already let through begins, the command behind the last gate or the copy behind
the rescue's check, and a job that ends cancelled has touched nothing;
the release switches are undone unless success is reported; what is reported as imported or
rescued is, through crashes, failures and late imports (for albums that had no files before);
undisturbed, a release is sent to Lidarr once; and files stay with a record that offers them
for promotion or retry, except where the next attempt's removal of the folder is cut short. `ReviewLifecycle`: what is archived as discarded or expired does not
come into the library any more, although neither takes the lock; files that are neither
imported nor given up have a record with an action that the dashboard offers and the endpoint
accepts, whatever was interrupted; a pending review is on hold and shown unless `jobs.json` was lost, an
archived one has neither queue entry nor files; an operator's release switch stays only with an
import, or on an album that had files before, which the code takes for one; and
nothing but discard's removal of the folder ever takes a release's last record (`RecordKept`).
`Restore`: no worker runs over a half-replaced state and no scheduled backup of one pushes out
a sound one, the safety backup holds what the boot found, an accepted restore stays pending
with its zip until cancelled or taken up, and what the status newly says is so, a log that
could not be unlinked aside (section 4). `GrabIntake`: a jid Lidarr was given has a projection,
or had one that went with `jobs.json`, and while it is shown as under way somebody is at
work on it; a removed download is not shown again except as a review, also by a worker that
makes its lost projection anew, and its album is not
offered while the hold lasts, also after earlier holds; no handler undoes the worker's
progress. Where a property excludes swallowed errors or crashes it says so, because the code
promises it only then.

**Fairness.** The worker loops are endless with bounded waits, executors and measurements
have timeouts, a handler that has begun runs to its end, the container is restarted and the
clock advances: those are weakly fair. In `JobQueue` the periodic recovery is fair by itself,
since the loop runs it every few minutes whatever else it finds to do. Requests, crashes,
errors, Lidarr, the backends and the operator are owed nothing.

## 4. Findings

1. **A job cancelled while running is lost in a crash** (`JobQueue_stuck_cancelling`).
   Recovery takes `running` rows only. The row stays `cancelling`, its dedupe key stays
   taken, imports look active to every scan, and a scan run behind such a job is never
   reconciled although `state_db.py` 2306-2315 names `cancelling`.
2. **An old spectral verdict passes as fresh** after a cheap or metadata rescan of a replaced
   file (`LibraryEvidence_stale_spectral`).
3. **A late import is recorded as FAILED** (`ImportFlow_late_import`): evidence is counted
   first and the command looked at afterwards, in the import and in the reconciliation.
4. **A measured decode defect does not count** (`MeasuredDecision_defect`): SQLite returns 0,
   the roll-up asks for `is False` (`library_comparison.py` 78), so a sound candidate is no
   upgrade over a corrupt file.

Further disagreements with a document or a comment, which the models show and no run is given to;
each is named in the comment of the property it touches:

* **A scan cut short while it is created.** Three autocommitted statements create it
  (`state_db.py` 2240-2280). After a crash before the third, boot fails the run although its job is
  queued (2312-2314: a run whose job is still queued "is left alone"); the thread then
  claims the job and writes the failed run back to running, and until it does a second scan may be
  queued beside it. A swallowed error at the same place leaves a run without a job, which every
  later request is answered with until the next boot. `OneLiveScan` and `RunVerdictStands` exempt
  a run without its job's id.
* **A stale write-ahead log is reported as applied.** Unlinking the log of the replaced database
  swallows its errors (`restore.py` 410-415) and nothing looks whether it is gone, while
  `docs/operations/BACKUP_RESTORE.md` 175-176 and the docstring at `restore.py` 580 promise that it
  is cleared. `ReportIsTrue` exempts it.
* **A promotion changes the decision.** `docs/specs/SIDECAR_FORMAT_v2.md` 107-109 and 433 call
  `v2_verification_decision` immutable, also under promotion; `server.py` 6483 overwrites it, and
  the code tells promoted records by the new value. `Promoted` follows the code.
* **A promoted record can be discarded** while its import failed or is pending (`server.py` 7563-7567), which the
  same document's transitions (432) exclude.
* **A crash can lose a review's hold.** `jobs.json` is rewritten in place (`server.py` 519-521) and
  an unparsable one is read as empty (496-500), while
  `docs/design/REVIEW_HOLD_VISIBLE_TO_LIDARR.md` 53-56 has the hold survive a restart. The record
  stays pending and actionable, but Lidarr may grab the album again. `HoldFollowsReview` exempts it.

Seen while modelling, and where a property touches it kept out of it by an explicit condition:

* A cancellation raised at the spectral loop's second wait is swallowed by the item's own
  `except Exception` (`library_scan_worker.py` 713-722); on the last item the run ends completed
  (`docs/design/F5.4_LIBRARY_EVIDENCE_INDEX.md` 430: the worker stops at the next yield point).
* `_backend_ingest_outcome` (`server.py` 2332-2348) reports imported while the ManualImport
  command is still pending (its comment at 2379-2381 says otherwise).
* Overdue reviews expire before a pending restore is looked at (`server.py` 6972-6973 and
  7790), also in a boot that then fails closed (`docs/operations/BACKUP_RESTORE.md` 171 and the
  docstring at 7745 have the restore first).
* A boot that cannot read an applying marker, or raises before it looks at it, starts the
  workers over a half-replaced state; `FailsClosed` and `ReportIsTrue` exclude it (`misread`).
  A marker that cannot be removed after a successful apply makes the next boot fail closed.
* A restore deletes nothing that the zip does not have, `jobs.json` is in no backup, queued jobs
  that are restored run again, and the ingest endpoints stay open after a failed apply. A
  backup copies its stores one after another; pruning orders by modification time.
* With no measured evidence a verified rip undoes the review that a fake hi-res signal
  demands, and that signal turns the BLOCK of a fake verdict into a review. A measured upgrade
  undoes the review of a mismatching rip. `GatesHold` states what remains.
* An album counts as its weakest measured track, unmeasured ones are ignored; an error of the
  database means a decision without measured evidence; and the row may change between the
  decision and the import. A failed cheap scan followed by a metadata scan makes integrity
  "known" although `flac -t` never ran.
* The import worker's recovery can fail the job of a live scan during the inventory fetch
  (`library_scan_worker.py` 657); the scan goes on and later overwrites failed by completed.
* Integrity verdicts go stale like spectral ones once metadata and integrity are scanned
  apart (`state_db.py` 612-671); the fused tier stamps an integrity version on an unmeasured
  row.
* A lane row stays in importing after a page cancel of a queued ingest job, a crash between
  the row and the job (`server.py` 1374-1388), or a recovery that uses up the attempts.
* The mirror writes a row it has read earlier (`server.py` 2358-2364), so a terminal row can
  be reopened; a discarded release can run again after a crash (5042-5046).
* `jobs.json` is rewritten in place (519-521): besides the holds a crash in mid-write
  loses which downloads Lidarr has removed and what it was shown of the others.
* When a next attempt's removal of the output folder raises or dies half-way (`pipeline.py`
  372-378), a record may stand without its audio; `FilesStayWithRecord` excludes it.
* A cancellation at the last gate leaves the release switches in place (5923 raises past every
  restore), and so does a request that raises after them; `ReleaseRestored` excludes both.
* When the move to the output folder fails, a review is recorded in the raw folder while its
  projection names the output folder (4851), where the record is then looked for.
* A command whose request timed out may have reached Lidarr; the job is retried, removes the
  output folder and sends a second one.
* The rescue counts trackfiles the album already had (6182), against half of what it copied:
  it may succeed with nothing registered, or fail when the old ones are few.
* A cancellation that arrives between the rescue's look at the flag (6078) and its copy (6128) does
  not stop the copy.
* Discard takes no lock, so an importer that writes back its copy, or the creation of a
  review, can bring a record back beside the archived one (`docs/architecture/DATA_MODEL.md`
  383 has one per release). A crash between the removal of the folder and the archive
  (`server.py` 7575-7595) leaves no record at all.
* `_blocklist_grab` looks at the 50 latest events of Lidarr's history; the grab of an expired
  review is often older (`docs/design/REVIEW_HOLD_VISIBLE_TO_LIDARR.md` 65).
* Cancelling a promote job hides a review that is still pending (the same document, 22-23);
  `HoldFollowsReview` excludes it.
* The dashboard offers discard for an accepted release whose import failed; the endpoint
  answers 409.
* A dedupe hit in addurl may answer with the jid of a job that is being cancelled and is
  hidden. The page's cancel of a queued grab leaves it shown as queued, and so does a crash
  between publish and enqueue until a boot half an hour later. `AnsweredIsCarried` excludes
  these ends (`Dropped`).
* A direct thread (`server.py` 1694) is not deduped against and no removal stops it. A lookup
  and a reading back that both fail give Lidarr a jid nobody works on.
* A removal that meets the creation of a review is answered, and the download shown again.
* `expire_album_holds` has no caller; a hold runs out by its date.
* A rescue without candidates that succeeds writes no record and leaves the projection at
  processing.

## 5. Proofs

`JobQueueProofs`, for any job ids, keys, types, limits, crashes and errors, from the
assumptions `JobStoreAssumption` and `JobQueueAssumption`:

* `IInv` = `TypeOK` /\ `OneActivePerKey` /\ `HeldJobIsMine` /\ `Accounting` is inductive
  (`InductiveInvariant`). Dedupe alone is not inductive in the presence of outcome writes
  that ignore the row's state: it needs that the worker's row is running or cancelling, so
  that no terminal row is touched; the attempt budget needs the accounting per row (an
  attempt is counted at the claim, queued rows have one to spare, `starts` lags behind while
  a claim has not started); kept cancellations need "the flag is up exactly for the asked".
* From it follow `TypeCorrect`, `UniqueActiveJob`, `WorkerOwnsItsRow`, `AttemptsAreBounded`,
  `CancelIsKept`, `CancelBeforeClaim`, and `QueueKeepsContract`: initial states map to
  initial states, every step to a step of the contract or a stutter.

`Accounting` is part of the inductive invariant only; what it is for, the run checks as
`AttemptBudget` and `CancelHolds` (theorem `CancellationHolds`).

`LibraryProofs` about the scan, for any number of items, runs, jobs, pool threads and crashes, from
`JobStoreAssumption` and `LibraryScanAssumption`:

* `IInv` = `TypeOK` /\ `Slot` /\ `AllCounted` /\ `Yields` (`ScanInvariant`).
* `Slot` carries `OneScanAtATime`: a scan's job names a run by its payload, that run has this job's
  id or, cut short, none, and a linked run waits while its job does (`Backed`); a running scan row is the thread's while the process is up
  (`RunningIsMine`), and an executing thread has a run and a row that is not waiting (`Held`).
  It rests on the scan job's single attempt: recovery gives such a job up, so that no run is
  claimed twice.
* `AllCounted` carries `CompletedScansAreComplete`: what was handed out is counted, in the pool,
  in the batch being tallied, or the item the spectral loop is at.
* `Yields` carries `ScanStopsWithinOneItem`: past the checks nothing was measured since the flag
  went up or imports arrived. A cancelled scan job's flag is never reset, and only
  `EnqueueImport` makes imports active.
* `VerdictsStand` is the action property `RunVerdictStands`.

`BackendLaneProofs`, for any number of releases, jobs, removals, crashes and errors, from
`JobStoreAssumption` and `BackendLaneAssumption`:

* `Lane`: an open row was asked for at the backend and a key has one active job (`Backed`);
  until the poll has enqueued the ingest job nobody else moves the row (`Handing`); between
  its transactions a removal has flagged the active job (`Flagged`), and no later poll starts
  one (`Closed`). From it `RowBeforeJob` and `RemovalReachesTheJob`.
* `JudgedOnce`, `Cause` and `OnDisplay`: while nothing failed a release is judged once, a
  cancelled row had a removal or a discarded record, and the review about to be reported is
  still shown. From them `ReviewsStayVisible`.
* `CancelStopsTheImport` is the action property `CancelledIsNotImported`; `LaneTypeCorrect` the
  types.

`GrabIntakeProofs`, for any number of releases, requests, jobs, crashes and failures, from
`JobStoreAssumption` and `GrabIntakeAssumption`:

* `Named`: a jid is that of one job or of one thread, and has a projection or, after a crash, a
  lost one. `Drawn`: until it is
  answered only the handler knows the jid it drew, and without a failure nobody comes between
  its dedupe lookup and its INSERT. Both are about uuids that travel through three stores
  without a common transaction.
* `Removing`, `Stopped` and `Banning` carry `RemovalsStick`: a removal has flagged the job, a job
  that put up a review is about to end, and the hold is made or about to be. `Working` and
  `Carrying` carry `GrabsAreCarried`: the row of a running executor is active and its projection
  says so. TLC checked the invariant with three requests and one fault, and with two of each.
* The steps are proved in groups that share an effect: the worker's, its projection's, those
  beside both, a removal's, and the way in (`WorkKeeps`, `ProjectionKeeps`, `BesideKeeps`,
  `RemoveKeeps`, `IntakeKeeps`). `ProgressIsKept` is the action property `ProgressKept`.

`ImportFlowProofs`, for any number of attempts, albums, crashes, failures and cancellations,
from `JobStoreAssumption` and `ImportFlowAssumption` (one job):

* `Effect` says what a step may do to the state the properties speak of: to the job's row and
  the worker's position (a stage, a claim, an end, somebody else's step), to Lidarr (nothing,
  a command sent, files placed, a command carried out), and to what is reported, with its
  evidence. Each action is shown to have one of these effects, and `EffectKeepsIInv` that
  the effects keep the invariant.
* `IInv` adds to the types: the attempt budget (`Budget`), that a pipeline under way belongs to
  a running or cancelling row (`Owned`), that later attempts and the current one up to its
  command left no trace at Lidarr (`Fresh`), and that a late mutation is the command behind
  the last gate or the copy behind the rescue's check (`OneLate`). `Fresh` is what the cancellation property lacks: without it a
  claim could meet a command already sent under its number. It also keeps a second command from
  overwriting the evidence `SuccessIsReal` rests on.
* Theorems from it: `ImportTypeCorrect`, `CancelIsHonoured`, `ReportedSuccessIsReal`.
* A second invariant, `Calm`, rests on the first and holds while nothing crashed and no request
  failed, which is what `ReleaseRestored` and `OneCommand` suppose. It is needed because both are
  about a job that is over, and say nothing of the way there: the switched albums are those the
  worker remembers until it has restored them, and afterwards stay only with a release that is
  reported (`Undone`); only the current attempt left traces, and an attempt that left some is not
  tried again (`Sole`); a pending import, which an HTTP request may turn into a completed or a
  failed one at any time, belongs to an attempt that sent its command and has nothing switched
  but what it is restoring (`Late`). TLC checked `Calm` on all states of the run. Theorems:
  `SwitchesAreUndone`, `CommandIsSentOnce`.
* `RecordKeepsFiles` is the action property `FilesStayWithRecord`, crashes and failures included,
  but for the removal that is cut short. It needs that without V2 verification there is never a record (`Unrecorded`).

`LibraryProofs` about evidence and the decision, for any cases, qualities, replacements and
upgrades, from `LibraryEvidenceAssumption` and `MeasuredDecisionAssumption`:

* About the evidence row: `EvidenceInv` (theorem `ProbesAreCovered`: a stored stat is
  never younger than the probe stored with it, nor is a measurer's), from which `MetadataIsCurrent`; with "integrity is
  written only together with metadata until a split-tier scan" also `FusedIntegrityIsCurrent`.
* `GatesAlwaysHold` needs no invariant: it follows the decision through its stages. A failed
  gate is a BLOCK of `decide` (`GateBlocks`), a suspect release is not accepted on its own
  evidence (`SuspectIsHeld`), `compare` lets only a valid and authentic candidate win
  (`WinnerIsClean`), and the later stages only ever make an acceptance less.
* `BetterIsKept` joins that with `MetadataIsCurrent`: the tier the comparison reads from the
  row is that of the content now on disk. It rests on finding 4 (`NothingIsInvalid`): with the
  defect repaired, a candidate of a lower tier could be an upgrade over a corrupt track, and
  `NeverReplacesBetter` would have to say so.

`ReviewLifecycleProofs`, for any number of albums, jobs, requests, restarts, cancellations,
crashes and failures, from `JobStoreAssumption` and `ReviewLifecycleAssumption` (the two job
kinds, at least one job id):

* Discards, restarts and expiry do not wait for the threads that read the record before them,
  and `Finish` writes back the copy it read. So what is true of the record has to be true of
  every copy, and what may be written where depends on which thread stands where. That is what
  the invariant adds to the properties, which say nothing of copies.
* Each action is of one of the kinds of `Kinds`, which say what a step of that kind reads and
  what it leaves of the state (`StepKinds`); the parts of the invariant are proved over kinds.
* `Base`: the types, what a thread knows where it stands (`Reads`), and who runs while the
  process is down or the review is being created (`Threads`). `Claims` adds: in every copy a
  record's state has its evidence (`RecordsSound`), a reported outcome has its import
  (`Evident`), nothing is archived as discarded while the files are there (`FilesHeld`), and
  without a failure every switch not yet undone is known to the request that made it
  (`Switches`), from which `SwitchUndone`.
* About expiry, which takes no lock either: an expired release is never accepted again
  (`ExpiredIsDead`); when it expires no thread is about to write into the output folder, and
  a record still there is that of an expiry which a crash interrupted (`ExpiredAlone`); the
  archive is written before the original is unlinked (`Expiring`). With files under review or
  expired, neither an importer holds an accepted record nor Lidarr a command (`Untouched`).
  This carries `DiscardIsFinal`.
* `Present` (a record, except inside a discard) carries `RecordKept`; `OnHold` and `Cleaned` (what
  a review shows, and what is gone once it is archived) carry `HoldFollowsReview` and
  `HeldIsActionable`.
* Theorems: `ReviewTypeOK`, `SwitchIsUndone`, `ReviewInvariant`, `ReviewIsHeld`,
  `HeldReleaseIsActionable`, and the action properties `DiscardIsForGood`, `RecordIsKept`. The
  parts of `IInv` were checked by TLC on the states of the run before they were proved.

`RestoreProofs`, for any number of entries, restores, boots, backups and crashes, from
`RestoreAssumption`:

* The inductive invariant is the types, `Position` (where the marker stands at each step of
  the boot and during a request), and one part per theorem. `RestoreFailsClosed` needs that a
  torn state has an applying marker and that no scheduled backup under way reads one
  (`Closed`); `SafetyBackupHolds` that the state still equals `before` until the marker says
  applying (`Captured`); `StatusIsTrue` that the entries done so far are those of the zip and
  that a stale log is there only until the apply has tried to unlink it, or from a crash in
  between to the next opening of the database (`Replacing`); `AcceptedRestoreIsKept` that whoever removes a marker or a zip has settled
  its restore before (`Promised`), and that a request between its two steps finds no marker.
* Theorems: `RestoreTypeCorrect`, `RestoreFailsClosed`, `SafetyBackupHolds`,
  `AcceptedRestoreIsKept`, `StatusIsTrue`.

Every invariant and action property of a passing run is stated by a theorem. Only model-checked
are the liveness properties `RunningSettles` and `IngestSettles`: fairness and ENABLED are outside
this prover's reach.

## 6. Plan

Done: `JobStore`, `JobContract`, `JobQueue`, `LibraryScan`, `LibraryEvidence`, `BackendLane`,
`ImportFlow`, `ReviewLifecycle`, `GrabIntake`, `MeasuredDecision` and `Restore`, all with proofs;
`VerificationPolicy` and `LibraryComparison` as operators.

Next, in this order:

1. `SoulseekTransfer`: the wait for a transfer in `adapters/soulseek.py`, its polls and timeout.
2. An abstract `ImportContract` that `ImportFlow`, `ReviewLifecycle`'s importers and
   `BackendLane`'s pipeline steps follow.

## 7. Not modelled

Adapters, connectors and backend clients are calls to external programs and services without
shared state. The one wait with a state of its own among them, Soulseek's, is in the plan.
What the withdrawal of a release that could not be stored does at the backend (`server.py`
1079) is outside this program, and so has no property. Catalogue lookups, release matching, CD
evidence, the facade's XML and JSON and the dashboard's pages are parsing and formatting.
Notifications, metrics and logging are output. `sensor_registry.py` is a table and
`backfill_state.py` a one-off import. The per-item scan ledger is only read back by a second
execution of a run, which a single attempt excludes.
