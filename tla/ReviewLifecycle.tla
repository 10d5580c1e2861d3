-------------------------- MODULE ReviewLifecycle --------------------------
(***************************************************************************)
(* What happens to one release after its first verdict: the review that    *)
(* holds it, the operator's promote, retry, release switch and discard,    *)
(* the reconciliation of pending imports, and expiry at process start.     *)
(*                                                                         *)
(* Five threads share the verification record, the release's folder, the   *)
(* projection and Lidarr: the worker (promote_import and retry_import      *)
(* jobs), a request that imports in its own thread (release switch, or a   *)
(* promote or retry while SQLite is unavailable), a discard, a             *)
(* reconciliation, and Lidarr itself.  Only the two importers and the      *)
(* creation of a review take the release's promote lock.                   *)
(*                                                                         *)
(* Each thread reads the record once and later writes back what it read,   *)
(* at the path it read it from.  A record in the output folder goes with   *)
(* the folder, and writing one makes the folder.  shutil.rmtree is taken   *)
(* to remove what it is given.  The job's lease is module JobQueue's       *)
(* subject, a backend row module BackendLane's.                            *)
(***************************************************************************)
EXTENDS JobStore

CONSTANTS
    Albums,       \* the Lidarr albums the release's files match
    MaxRequests,  \* bound on HTTP requests
    MaxRestarts,  \* bound on orderly restarts
    MaxFaults     \* bound on cancellations, crashes, and failures of requests
                  \* and of SQLite, taken together

ASSUME ReviewLifecycleAssumption ==
    /\ Keys = {"promote", "retry_import"} /\ JobIds # {}
    /\ MaxRequests \in Nat /\ MaxRestarts \in Nat /\ MaxFaults \in Nat

VARIABLES
    importer,  \* the worker and the importing request, with their locals
    lock,      \* who holds the promote lock
    discard,   \* the discard request
    refresh,   \* the reconciling request
    side,      \* the verification records on disk, by place
    folder,    \* the output folder: gone, without audio, with audio
    proj,      \* the _jobs projection
    lidarr,    \* Lidarr's side
    config,    \* had: the album was in the library before; old: review overdue;
               \* lost: jobs.json was lost at some time
    spent      \* how much of each bound is used up

vars == <<jobs, importer, lock, discard, refresh, side, folder, proj, lidarr,
          config, spent>>

Importers == {"worker", "http"}
Places == {"out", "discarded", "expired"}

Record == [decision : {"ACCEPT", "ACCEPT_PROVISIONAL", "REVIEW_REQUIRED"},
           outcome  : {"PENDING", "FAILED", "MANUAL_IMPORTED", "RESCUED"},
           state    : {"created", "pending_review", "promoted", "discarded", "expired"},
           promoted : BOOLEAN,       \* manual_promote is among the overrides
           blocklisted : BOOLEAN]    \* blocklist_status is done
NoRecord == [decision |-> "none", outcome |-> "none", state |-> "none",
             promoted |-> FALSE, blocklisted |-> FALSE]

NewRecord(decision, outcome, state) ==
    [NoRecord EXCEPT !.decision = decision, !.outcome = outcome, !.state = state]

\* An importer's locals; `sent' that Lidarr accepted its command, `applied'
\* the release switches to undo, `after' what follows when they are undone.
Importer == [pc : {"idle", "down", "reviewing", "claimed", "waiting", "unlocked",
                   "switch", "act", "lookup", "post", "wait", "pending", "rescue",
                   "copy", "rescan", "finish", "restoring", "archived", "unlinked", "removed"},
             job : JobIds, kind : Keys, rec : Record \cup {NoRecord},
             path : Places \cup {"none"}, sent : BOOLEAN,
             outcome : {"none", "FAILED", "PENDING", "MANUAL_IMPORTED", "RESCUED"},
             todo : SUBSET Albums, applied : SUBSET Albums]
AnyJob == CHOOSE j \in JobIds : TRUE
ImporterAt(pc) ==
    [pc |-> pc, job |-> AnyJob, kind |-> "promote", rec |-> NoRecord,
     path |-> "none", sent |-> FALSE, outcome |-> "none", todo |-> {}, applied |-> {}]

Reader(pcs) == [pc : {"idle"} \cup pcs, rec : Record \cup {NoRecord},
                path : Places \cup {"none"}]
NoReader == [pc |-> "idle", rec |-> NoRecord, path |-> "none"]

TypeOK ==
    /\ JobsTypeOK
    /\ importer \in [Importers -> Importer]
    /\ lock \in Importers \cup {"free"}
    /\ discard \in Reader({"remove", "blocklist", "archive", "mark"})
    /\ refresh \in Reader({"count", "pending"})
    /\ side \in [Places -> Record \cup {NoRecord}]
    /\ side["out"] # NoRecord => folder # "gone"
    /\ folder \in {"gone", "empty", "audio"}
    /\ proj \in [status : {"processing", "review_required", "completed", "failed", "lost"},
                 hold : BOOLEAN, hidden : BOOLEAN]
    /\ lidarr \in [queue : BOOLEAN, queued : BOOLEAN, imported : BOOLEAN,
                   placed : BOOLEAN, blocklisted : BOOLEAN, switched : SUBSET Albums]
    /\ config \in [had : BOOLEAN, old : BOOLEAN, lost : BOOLEAN]
    /\ spent \in [cancels : 0 .. MaxFaults, crashes : 0 .. MaxFaults,
                  failures : 0 .. MaxFaults, restarts : 0 .. MaxRestarts,
                  requests : 0 .. MaxRequests]

\* A release about to be held for review, or an accepted one whose import
\* failed or is still with Lidarr.
Init ==
    /\ JobsInit
    /\ lock = "free" /\ discard = NoReader /\ refresh = NoReader
    /\ folder = "audio"
    /\ config \in [had : BOOLEAN, old : {FALSE}, lost : {FALSE}]
    /\ spent = [cancels |-> 0, crashes |-> 0, restarts |-> 0, failures |-> 0,
               requests |-> 0]
    /\ \E first \in {"review", "FAILED", "PENDING"} :
          /\ importer = [p \in Importers |-> ImporterAt(IF p = "worker" /\ first = "review"
                                                        THEN "reviewing" ELSE "idle")]
          /\ \E d \in {"ACCEPT", "ACCEPT_PROVISIONAL"} :
                side = [w \in Places |-> IF w = "out" /\ first # "review"
                                         THEN NewRecord(d, first, "created") ELSE NoRecord]
          /\ proj = [status |-> IF first = "FAILED" THEN "failed" ELSE "processing",
                     hold |-> FALSE, hidden |-> first = "FAILED"]
          /\ lidarr = [queue |-> first # "FAILED", queued |-> first = "PENDING",
                       imported |-> FALSE, placed |-> FALSE, blocklisted |-> FALSE,
                       switched |-> {}]

At(p, pc) == importer[p].pc = pc
Goto(p, pc) == importer' = [importer EXCEPT ![p].pc = pc]
Up == importer["worker"].pc \notin {"down", "archived", "unlinked", "removed"}
Request == /\ spent.requests < MaxRequests
           /\ spent' = [spent EXCEPT !.requests = @ + 1]
Fault(f) == /\ spent.cancels + spent.crashes + spent.failures < MaxFaults
            /\ spent' = [spent EXCEPT ![f] = @ + 1]
Failure == Fault("failures")
Works == UNCHANGED spent

-----------------------------------------------------------------------------
(* The record *)

\* _find_verification_sidecar
Find == IF side["out"] # NoRecord THEN "out"
        ELSE IF side["discarded"] # NoRecord THEN "discarded"
        ELSE IF side["expired"] # NoRecord THEN "expired" ELSE "none"
Current == IF Find = "none" THEN NoRecord ELSE side[Find]

\* _atomic_write_json
Write(w, r) ==
    /\ side' = [side EXCEPT ![w] = r]
    /\ folder' = IF w = "out" /\ folder = "gone" THEN "empty" ELSE folder

\* _safe_rmtree_under(OUTPUT_BASE, output_dir)
RemoveFolder ==
    /\ folder' = "gone"
    /\ side' = [side EXCEPT !["out"] = NoRecord]

Imported(r) == r.outcome \in {"MANUAL_IMPORTED", "RESCUED"}
Unfinished(r) == r.outcome \in {"FAILED", "PENDING"}

_is_promotable(r) ==
    \/ r.decision = "REVIEW_REQUIRED" /\ r.state = "pending_review"
    \/ r.decision = "ACCEPT_PROVISIONAL" /\ Unfinished(r) /\ r.promoted

\* Mutant: a record that was promoted is left to the promote action.
RetryableUnlessPromoted(r) ==
    /\ r.decision \in {"ACCEPT", "ACCEPT_PROVISIONAL"}
    /\ Unfinished(r)
    /\ r.state \notin {"promoted", "discarded", "expired"}

_is_retryable_verified_import(r) ==
    /\ r.decision \in {"ACCEPT", "ACCEPT_PROVISIONAL"}
    /\ Unfinished(r)
    /\ r.state \notin {"discarded", "expired"}

Discardable(r) ==
    \/ r.decision = "REVIEW_REQUIRED"
    \/ r.decision = "ACCEPT_PROVISIONAL" /\ Unfinished(r) /\ r.promoted

\* What the dashboard offers for a record (release switches aside).
available_actions(r) ==
    IF r.state \in {"discarded", "expired"} \/ Imported(r) THEN {}
    ELSE IF r.decision = "REVIEW_REQUIRED" /\ r.state = "pending_review"
         THEN {"promote", "discard"}
    ELSE IF r.outcome = "FAILED" THEN {"retry_import", "discard"}
    ELSE {"retry_import"}

-----------------------------------------------------------------------------
(* The projection and Lidarr's queue *)

\* An entry that is gone; all but _hide_from_lidarr and the expiry make a new one.
LostProjection == [status |-> "lost", hold |-> FALSE, hidden |-> FALSE]

_mark_import_failed == proj' = [status |-> "failed", hold |-> FALSE, hidden |-> TRUE]
_mark_import_completed == proj' = [status |-> "completed", hold |-> FALSE, hidden |-> TRUE]
_mark_review_required == proj' = [status |-> "review_required", hold |-> TRUE, hidden |-> FALSE]

_hide_from_lidarr(cleaned) ==
    proj' = [proj EXCEPT !.hidden = @ \/ (cleaned /\ proj.status # "lost")]

\* _mark_import_failed, then _cleanup_lidarr_queue, which swallows a failure.
FailAndClean ==
    /\ _mark_import_failed
    /\ \/ lidarr' = [lidarr EXCEPT !.queue = FALSE] /\ Works
       \/ UNCHANGED lidarr /\ Failure

\* _blocklist_grab, skipped where the record says that it was `done' before.
\* It fails without any error when the grab is not among the 50 latest events
\* of Lidarr's history: `found' is free.
_blocklist_grab(found, done) == lidarr.blocklisted \/ (found /\ ~done)

\* Evidence of an import: Lidarr's history, or trackfiles and no sources.
Evidence == lidarr.imported \/ (config.had /\ folder # "audio")

-----------------------------------------------------------------------------
(* A review is created, by the worker's grab job and under the lock *)

CreateReview ==
    /\ At("worker", "reviewing") /\ lock = "free"
    /\ lock' = "worker"
    /\ LET r == NewRecord("REVIEW_REQUIRED", "PENDING", "pending_review")
       IN  /\ Write("out", r)
           /\ importer' = [importer EXCEPT !["worker"].rec = r]
    /\ UNCHANGED <<jobs, discard, refresh, proj, lidarr, config, spent>>

\* Under the blocklist_now policy the grab is blocklisted first and the record
\* written again.
_create_review_required ==
    /\ At("worker", "reviewing") /\ lock = "worker"
    /\ \/ UNCHANGED <<side, folder, lidarr>>
       \/ \E done \in BOOLEAN :
             /\ lidarr' = [lidarr EXCEPT !.blocklisted = _blocklist_grab(done, FALSE)]
             /\ Write("out", [importer["worker"].rec EXCEPT !.blocklisted = done])
    /\ _mark_review_required
    /\ lock' = "free"
    /\ importer' = [importer EXCEPT !["worker"] = ImporterAt("idle")]
    /\ UNCHANGED <<jobs, discard, refresh, config, spent>>

-----------------------------------------------------------------------------
(* Requests to import *)

Accepted(kind) ==
    /\ ~Imported(Current)
    /\ \/ kind = "promote" /\ _is_promotable(Current)
       \/ kind = "retry_import" /\ _is_retryable_verified_import(Current) /\ folder # "gone"

\* verification_promote and verification_retry_import: a job is queued.
Enqueue(kind) ==
    /\ Up /\ Accepted(kind)
    /\ Request
    /\ \E j \in JobIds : enqueue_job(kind, j)
    /\ UNCHANGED <<importer, lock, discard, refresh, side, folder, proj, lidarr, config>>

\* SQLite is unavailable: the request goes on with the record it has read ...
Fallback(kind) ==
    /\ Up /\ At("http", "idle") /\ Accepted(kind)
    /\ Failure
    /\ importer' = [importer EXCEPT !["http"] =
           [ImporterAt("unlocked") EXCEPT !.kind = kind, !.rec = Current, !.path = Find]]
    /\ UNCHANGED <<jobs, lock, discard, refresh, side, folder, proj, lidarr, config>>

\* ... and imports if nobody else does.
TryLock ==
    /\ At("http", "unlocked")
    /\ IF lock = "free" THEN lock' = "http" /\ Goto("http", "act")
       ELSE importer' = [importer EXCEPT !["http"] = ImporterAt("idle")] /\ UNCHANGED lock
    /\ UNCHANGED <<jobs, discard, refresh, side, folder, proj, lidarr, config, spent>>

\* The identity and strategy conditions are taken to be met.
_release_switch_manual_review_allowed(r) == _is_promotable(r)

\* The albums the record names or Lidarr matches now, among them those for
\* which another release than the current one matches best.
_release_switch_album_ids_for_record == SUBSET Albums
_release_switch_candidate_for_album(ids) == SUBSET ids

\* verification_release_switch: the record is read under the lock.
verification_release_switch ==
    /\ Up /\ At("http", "idle") /\ lock = "free"
    /\ Request
    /\ _release_switch_manual_review_allowed(Current) /\ folder # "gone"
    /\ lock' = "http"
    /\ \E ids \in _release_switch_album_ids_for_record :
          \E albums \in _release_switch_candidate_for_album(ids) :
             importer' = [importer EXCEPT !["http"] = [ImporterAt("switch") EXCEPT
                              !.rec = Current, !.path = Find, !.todo = albums]]
    /\ UNCHANGED <<jobs, discard, refresh, side, folder, proj, lidarr, config>>

\* _apply_release_switch_candidate: confirmed, refused, or raising, perhaps
\* after Lidarr switched.  With all albums tried it imports, if any switched.
Switch ==
    /\ At("http", "switch")
    /\ LET me == importer["http"] IN
       \/ \E a \in me.todo :
             \/ /\ lidarr' = [lidarr EXCEPT !.switched = @ \cup {a}]
                /\ importer' = [importer EXCEPT !["http"].todo = @ \ {a},
                                                !["http"].applied = @ \cup {a}]
                /\ Works
             \/ /\ importer' = [importer EXCEPT !["http"].todo = @ \ {a}]
                /\ Works /\ UNCHANGED lidarr
             \/ /\ Failure
                /\ \E took \in SUBSET {a} : lidarr' = [lidarr EXCEPT !.switched = @ \cup took]
                /\ Goto("http", "restoring")
       \/ /\ me.todo = {}
          /\ Goto("http", IF me.applied = {} THEN "restoring" ELSE "act")
          /\ Works /\ UNCHANGED lidarr
    /\ UNCHANGED <<jobs, lock, discard, refresh, side, folder, proj, config>>

-----------------------------------------------------------------------------
(* The worker's jobs *)

Claim ==
    /\ At("worker", "idle")
    /\ \E j \in JobIds :
          /\ dequeue_next_job(j, Types)
          /\ importer' = [importer EXCEPT !["worker"] =
                 [ImporterAt("claimed") EXCEPT !.job = j, !.kind = jobs[j].key]]
    /\ UNCHANGED <<lock, discard, refresh, side, folder, proj, lidarr, config, spent>>

Start ==
    /\ At("worker", "claimed")
    /\ IF is_job_cancel_requested(importer["worker"].job)
       THEN /\ mark_job_cancelled(importer["worker"].job)
            /\ importer' = [importer EXCEPT !["worker"] = ImporterAt("idle")]
       ELSE Goto("worker", "waiting") /\ UNCHANGED jobs
    /\ UNCHANGED <<lock, discard, refresh, side, folder, proj, lidarr, config, spent>>

\* An import raises.  The lock is released and the worker decides on its job,
\* which `transient' allows to be retried; a request first undoes its switches.
Raises(p, transient) ==
    IF p = "worker"
    THEN LET j == importer[p].job
         IN  /\ IF transient /\ CanRetry(j) THEN schedule_job_retry(j) ELSE mark_job_failed(j)
             /\ lock' = "free"
             /\ importer' = [importer EXCEPT ![p] = ImporterAt("idle")]
    ELSE Goto(p, "restoring") /\ UNCHANGED <<jobs, lock>>

\* The executor takes the lock and reads the record.
Acquire ==
    /\ At("worker", "waiting") /\ lock = "free"
    /\ IF Find = "none"
       THEN Raises("worker", FALSE)
       ELSE /\ lock' = "worker"
            /\ importer' = [importer EXCEPT !["worker"].pc = "act",
                                            !["worker"].rec = Current,
                                            !["worker"].path = Find]
            /\ UNCHANGED jobs
    /\ UNCHANGED <<discard, refresh, side, folder, proj, lidarr, config, spent>>

\* _raise_if_job_cancelled in the worker's thread: the projection fails, the
\* files stay and the job ends as cancelled.
Cancelled(p) ==
    /\ p = "worker" /\ is_job_cancel_requested(importer[p].job)
    /\ proj' = [proj EXCEPT !.status = "failed", !.hidden = TRUE]
    /\ mark_job_cancelled(importer[p].job)
    /\ lock' = "free"
    /\ importer' = [importer EXCEPT ![p] = ImporterAt("idle")]
    /\ UNCHANGED <<side, folder, lidarr, spent>>
GoesOn(p) == ~(p = "worker" /\ is_job_cancel_requested(importer[p].job))

-----------------------------------------------------------------------------
(* Promote and retry *)

\* The decision of the first write is overwritten (server.py 6483), although
\* SIDECAR_FORMAT_v2.md 107-109 and 433 call it immutable, also under promotion.
Promoted(r) == [r EXCEPT !.decision = "ACCEPT_PROVISIONAL", !.promoted = TRUE,
                         !.state = "promoted"]

\* Nothing is left to do, or the record does not allow it.
Declined(p) ==
    LET me == importer[p] IN
    \/ /\ Imported(me.rec)
       /\ importer' = [importer EXCEPT ![p].pc = "finish", ![p].path = "none",
                                       ![p].outcome = me.rec.outcome]
       /\ UNCHANGED <<jobs, lock>>
    \/ /\ ~Imported(me.rec)
       /\ \/ me.kind = "promote" /\ ~_is_promotable(me.rec)
          \/ me.kind = "retry_import"
             /\ ~(_is_retryable_verified_import(me.rec) /\ folder # "gone")
       /\ Raises(p, FALSE)

\* _promote_verified_import and _retry_verified_import up to the import.
Act(p) ==
    /\ At(p, "act")
    /\ LET me == importer[p]
           valid == /\ ~Imported(me.rec)
                    /\ IF me.kind = "promote" THEN _is_promotable(me.rec)
                       ELSE _is_retryable_verified_import(me.rec) /\ folder # "gone"
       IN  \/ Declined(p) /\ UNCHANGED <<side, folder, proj, lidarr, spent>>
           \/ valid /\ Cancelled(p)
           \/ /\ valid /\ GoesOn(p)
              /\ IF me.kind = "promote"
                 THEN /\ Write(me.path, Promoted(me.rec))
                      /\ importer' = [importer EXCEPT ![p].pc = "lookup",
                                                      ![p].rec = Promoted(me.rec)]
                      /\ UNCHANGED proj
                 ELSE /\ proj' = [proj EXCEPT !.status = "processing", !.hidden = FALSE]
                      /\ Goto(p, "lookup")
                      /\ UNCHANGED <<side, folder>>
              /\ UNCHANGED <<jobs, lock, lidarr, spent>>
    /\ UNCHANGED <<discard, refresh, config>>

Returns(p, outcome) ==
    importer' = [importer EXCEPT ![p].pc = "finish", ![p].outcome = outcome]

\* _run_manual_import_only: no key, an error status or no usable candidate is
\* a failure that leaves the projection alone.
Lookup(p) ==
    /\ At(p, "lookup")
    /\ \/ Cancelled(p)
       \/ /\ GoesOn(p)
          /\ \/ Returns(p, "FAILED") /\ Works /\ UNCHANGED <<jobs, lock>>
             \/ folder = "audio" /\ Goto(p, "post") /\ Works /\ UNCHANGED <<jobs, lock>>
             \/ Failure /\ \E t \in BOOLEAN : Raises(p, t)
          /\ UNCHANGED <<side, folder, proj, lidarr>>
    /\ UNCHANGED <<discard, refresh, config>>

\* The command is accepted, refused, or raises, perhaps after Lidarr took it.
Post(p) ==
    /\ At(p, "post")
    /\ \/ /\ \E ok \in BOOLEAN :
                /\ lidarr' = [lidarr EXCEPT !.queued = @ \/ ok]
                /\ importer' = [importer EXCEPT ![p].pc = "wait", ![p].sent = ok]
          /\ Works /\ UNCHANGED <<jobs, lock>>
       \/ /\ Failure
          /\ \E ok \in BOOLEAN : lidarr' = [lidarr EXCEPT !.queued = @ \/ ok]
          /\ \E t \in BOOLEAN : Raises(p, t)
    /\ UNCHANGED <<discard, refresh, side, folder, proj, config>>

\* _wait_for_manualimport_progress.  A failed count before the command makes
\* what was in the library pass for new; a failed last poll hides an import.
Wait(p) ==
    /\ At(p, "wait")
    /\ \/ Cancelled(p)
       \/ /\ GoesOn(p)
          /\ \/ /\ \/ Evidence /\ Works
                   \/ config.had /\ Failure
                /\ _mark_import_completed
                /\ Returns(p, "MANUAL_IMPORTED")
             \/ /\ IF Evidence THEN Failure ELSE Works
                /\ Goto(p, "pending") /\ UNCHANGED proj
          /\ UNCHANGED <<jobs, lock, side, folder, lidarr>>
    /\ UNCHANGED <<discard, refresh, config>>

\* _lidarr_command_still_pending
CheckPending(p) ==
    /\ At(p, "pending")
    /\ \/ /\ importer[p].sent
          /\ \/ lidarr.queued /\ Works
             \/ Failure
          /\ Returns(p, "PENDING")
       \/ /\ ~(importer[p].sent /\ lidarr.queued)
          /\ Goto(p, "rescue") /\ Works
    /\ UNCHANGED <<jobs, lock, discard, refresh, side, folder, proj, lidarr, config>>

\* _rescue_place_and_rescan looks at the flag once; it may be disabled, and the
\* requests for the target folder may fail ...
Rescue(p) ==
    /\ At(p, "rescue")
    /\ \/ Cancelled(p)
       \/ /\ GoesOn(p)
          /\ \/ FailAndClean /\ Returns(p, "FAILED") /\ UNCHANGED <<jobs, lock>>
             \/ Goto(p, "copy") /\ Works /\ UNCHANGED <<jobs, lock, proj, lidarr>>
             \/ /\ Failure /\ \E t \in BOOLEAN : Raises(p, t)
                /\ UNCHANGED <<proj, lidarr>>
          /\ UNCHANGED <<side, folder>>
    /\ UNCHANGED <<discard, refresh, config>>

\* ... before it copies what is still there; with nothing copied it fails.
Copy(p) ==
    /\ At(p, "copy")
    /\ \/ FailAndClean /\ Returns(p, "FAILED")
       \/ /\ folder = "audio"
          /\ lidarr' = [lidarr EXCEPT !.placed = TRUE]
          /\ Goto(p, "rescan") /\ Works /\ UNCHANGED proj
    /\ UNCHANGED <<jobs, lock, discard, refresh, side, folder, config>>

\* Lidarr registers the copies or does not; the album's older trackfiles count
\* too, and may be fewer than half of the copies.
Rescan(p) ==
    /\ At(p, "rescan")
    /\ \/ /\ _mark_import_completed /\ Returns(p, "RESCUED")
          /\ Works /\ UNCHANGED <<jobs, lock, lidarr>>
       \/ FailAndClean /\ Returns(p, "FAILED") /\ UNCHANGED <<jobs, lock>>
       \/ /\ Failure /\ \E t \in BOOLEAN : Raises(p, t)
          /\ UNCHANGED <<proj, lidarr>>
    /\ UNCHANGED <<discard, refresh, side, folder, config>>

\* Mutant: a pending import keeps the switched release.
KeepsSwitches(r) == r.outcome # "FAILED"

\* The outcomes after which an operator's release switch stays.
SwitchStays(r) == r.outcome \in {"MANUAL_IMPORTED", "RESCUED"}

\* The outcome is written at the path the record was read from; a job is
\* completed, a request undoes its switches unless the import succeeded.
Finish(p) ==
    /\ At(p, "finish")
    /\ LET me == importer[p]
           result == [me.rec EXCEPT !.outcome = me.outcome]
       IN  /\ IF me.path = "none" THEN UNCHANGED <<side, folder>> ELSE Write(me.path, result)
           /\ IF p = "worker" THEN mark_job_completed(me.job) ELSE UNCHANGED jobs
           /\ IF p = "http" /\ me.applied # {} /\ ~SwitchStays(result)
              THEN Goto(p, "restoring") /\ UNCHANGED lock
              ELSE /\ importer' = [importer EXCEPT ![p] = ImporterAt("idle")]
                   /\ lock' = "free"
    /\ UNCHANGED <<discard, refresh, proj, lidarr, config, spent>>

\* _restore_release_switches, one album at a time, then the lock is released.
Restore ==
    /\ At("http", "restoring")
    /\ \/ \E a \in importer["http"].applied :
             /\ importer' = [importer EXCEPT !["http"].applied = @ \ {a}]
             /\ \/ lidarr' = [lidarr EXCEPT !.switched = @ \ {a}] /\ Works
                \/ UNCHANGED lidarr /\ Failure
             /\ UNCHANGED lock
       \/ /\ importer["http"].applied = {}
          /\ importer' = [importer EXCEPT !["http"] = ImporterAt("idle")]
          /\ lock' = "free"
          /\ Works /\ UNCHANGED lidarr
    /\ UNCHANGED <<jobs, discard, refresh, side, folder, proj, config>>

-----------------------------------------------------------------------------
(* verification_discard, which takes no lock *)

RequestDiscard ==
    /\ Up /\ discard.pc = "idle" /\ Discardable(Current)
    /\ Request
    /\ discard' = [pc |-> "remove", rec |-> Current, path |-> Find]
    /\ UNCHANGED <<jobs, importer, lock, refresh, side, folder, proj, lidarr, config>>

\* Mutant: the record is archived while the files are still there.
RemoveLater ==
    /\ discard.pc = "remove"
    /\ discard' = [discard EXCEPT !.pc = "blocklist"]
    /\ UNCHANGED <<jobs, importer, lock, refresh, side, folder, proj, lidarr, config, spent>>

Remove ==
    /\ discard.pc = "remove"
    /\ RemoveFolder
    /\ discard' = [discard EXCEPT !.pc = "blocklist"]
    /\ UNCHANGED <<jobs, importer, lock, refresh, proj, lidarr, config, spent>>

\* Mutant: Lidarr's queue is left as it is.
BlocklistOnly ==
    /\ discard.pc = "blocklist"
    /\ lidarr' = [lidarr EXCEPT !.blocklisted = TRUE]
    /\ discard' = [discard EXCEPT !.pc = "archive", !.rec.blocklisted = TRUE,
                                  !.rec.state = "discarded"]
    /\ UNCHANGED <<jobs, importer, lock, refresh, side, folder, proj, config, spent>>

\* _blocklist_grab, unless that was done, and _cleanup_lidarr_queue.
Blocklist ==
    /\ discard.pc = "blocklist"
    /\ \E done, cleaned \in BOOLEAN :
          /\ IF cleaned THEN Works ELSE Failure
          /\ lidarr' = [lidarr EXCEPT
                             !.blocklisted = _blocklist_grab(done, discard.rec.blocklisted),
                             !.queue = @ /\ ~cleaned]
          /\ _hide_from_lidarr(cleaned)
          /\ discard' = [discard EXCEPT !.pc = "archive",
                             !.rec.blocklisted = @ \/ done, !.rec.state = "discarded"]
    /\ UNCHANGED <<jobs, importer, lock, refresh, side, folder, config>>

\* The record goes to the archive; where it was read from it is unlinked.
Archive ==
    /\ discard.pc = "archive"
    /\ side' = [w \in Places |-> CASE w = "discarded"    -> discard.rec
                                   [] w = discard.path /\ w # "discarded" -> NoRecord
                                   [] OTHER              -> side[w]]
    /\ discard' = [discard EXCEPT !.pc = "mark"]
    /\ UNCHANGED <<jobs, importer, lock, refresh, folder, proj, lidarr, config, spent>>

MarkDiscarded ==
    /\ discard.pc = "mark"
    /\ _mark_import_failed
    /\ discard' = NoReader
    /\ UNCHANGED <<jobs, importer, lock, refresh, side, folder, lidarr, config, spent>>

-----------------------------------------------------------------------------
(* _reconcile_pending_import, which takes no lock either *)

\* The caller read the record; the path is "none" where it does not pass one.
Reconcile ==
    /\ Up /\ refresh.pc = "idle"
    /\ Request
    /\ Current.outcome = "PENDING"
    /\ \E w \in {Find, "none"} : refresh' = [pc |-> "count", rec |-> Current, path |-> w]
    /\ UNCHANGED <<jobs, importer, lock, discard, side, folder, proj, lidarr, config>>

\* The record as it was read, with its outcome, where it now belongs.
WriteBack(outcome) ==
    LET w == IF refresh.path = "none" THEN Find ELSE refresh.path
    IN  IF w = "none" THEN UNCHANGED <<side, folder>>
        ELSE Write(w, [refresh.rec EXCEPT !.outcome = outcome])

WasAccepted == refresh.rec.decision \in {"ACCEPT", "ACCEPT_PROVISIONAL"}

\* Evidence that the files are imported and gone ...
CountImported ==
    /\ refresh.pc = "count"
    /\ LET seen == folder # "audio" /\ (lidarr.imported \/ (WasAccepted /\ config.had))
       IN  \/ /\ seen /\ Works
              /\ WriteBack("MANUAL_IMPORTED")
              /\ _mark_import_completed
              /\ refresh' = NoReader
           \/ /\ IF seen THEN Failure ELSE Works
              /\ refresh' = [refresh EXCEPT !.pc = "pending"]
              /\ UNCHANGED <<side, folder, proj>>
    /\ UNCHANGED <<jobs, importer, lock, discard, lidarr, config>>

\* ... else a command that is still queued, which an unreadable queue counts
\* as, or an import that came to nothing.
CheckQueued ==
    /\ refresh.pc = "pending"
    /\ refresh' = NoReader
    /\ \/ /\ lidarr.queued \/ ~WasAccepted
          /\ Works /\ UNCHANGED <<side, folder, proj, lidarr>>
       \/ Failure /\ UNCHANGED <<side, folder, proj, lidarr>>
       \/ /\ ~lidarr.queued /\ WasAccepted
          /\ WriteBack("FAILED")
          /\ FailAndClean
    /\ UNCHANGED <<jobs, importer, lock, discard, config>>

-----------------------------------------------------------------------------
(* Lidarr, and the operator's cancellation *)

LidarrRuns ==
    /\ lidarr.queued
    /\ \/ /\ folder = "audio"
          /\ folder' = "empty"
          /\ \E stays \in BOOLEAN :
                lidarr' = [lidarr EXCEPT !.queued = FALSE, !.imported = TRUE,
                                         !.queue = @ /\ stays]
       \/ lidarr' = [lidarr EXCEPT !.queued = FALSE] /\ UNCHANGED folder
    /\ UNCHANGED <<jobs, importer, lock, discard, refresh, side, proj, config, spent>>

RequestCancel ==
    /\ Up
    /\ \E j \in JobIds : request_job_cancel(j)
    /\ Fault("cancels")
    /\ UNCHANGED <<importer, lock, discard, refresh, side, folder, proj, lidarr, config>>

RetryFallsDue ==
    /\ \E j \in JobIds : BecomesDue(j)
    /\ UNCHANGED <<importer, lock, discard, refresh, side, folder, proj, lidarr, config, spent>>

-----------------------------------------------------------------------------
(* Process stop and start *)

Quiet == /\ \A p \in Importers : At(p, "idle")
         /\ discard.pc = "idle" /\ refresh.pc = "idle"

Down == /\ importer' = [p \in Importers |-> ImporterAt(IF p = "worker" THEN "down" ELSE "idle")]
        /\ lock' = "free" /\ discard' = NoReader /\ refresh' = NoReader
        /\ UNCHANGED <<jobs, side, folder, lidarr>>

Stop ==
    /\ Quiet /\ spent.restarts < MaxRestarts
    /\ spent' = [spent EXCEPT !.restarts = @ + 1]
    /\ Down /\ UNCHANGED <<proj, config>>

\* A crash may cut short the rewriting of jobs.json, which is then read as empty.
\* A crash while the review is created is one of the grab job, ImportFlow's.
Crash ==
    /\ ~At("worker", "down") /\ ~At("worker", "reviewing")
    /\ Fault("crashes")
    /\ Down
    /\ \/ UNCHANGED <<proj, config>>
       \/ proj' = LostProjection /\ config' = [config EXCEPT !.lost = TRUE]

\* Start of the process: _load_jobs fails a projection that has been active
\* for too long, overdue reviews expire, then the worker takes over its jobs.
Overdue == config.old /\ Current.decision = "REVIEW_REQUIRED" /\ Current.state = "pending_review"

Age ==
    /\ At("worker", "down") /\ ~config.old
    /\ config' = [config EXCEPT !.old = TRUE]
    /\ UNCHANGED <<jobs, importer, lock, discard, refresh, side, folder, proj, lidarr, spent>>

Boot ==
    /\ At("worker", "down") /\ ~Overdue
    /\ recover_stale_running_jobs(Running)
    /\ Goto("worker", "idle")
    /\ \/ UNCHANGED proj
       \/ proj.status = "processing" /\ proj' = [proj EXCEPT !.status = "failed"]
    /\ UNCHANGED <<lock, discard, refresh, side, folder, lidarr, config, spent>>

\* Mutant: the record is taken from the folder before the archive has it.
ExpireUnarchived ==
    /\ At("worker", "down") /\ Overdue
    /\ side' = [side EXCEPT ![Find] = NoRecord]
    /\ importer' = [importer EXCEPT !["worker"].pc = "archived", !["worker"].path = Find]
    /\ UNCHANGED <<jobs, lock, discard, refresh, folder, proj, lidarr, config, spent>>

\* _expire_review_required_jobs: blocklist and archive ...
Expire ==
    /\ At("worker", "down") /\ Overdue
    /\ \E done \in BOOLEAN :
          /\ lidarr' = [lidarr EXCEPT !.blocklisted = _blocklist_grab(done, Current.blocklisted)]
          /\ Write("expired", [Current EXCEPT !.state = "expired",
                                              !.blocklisted = @ \/ done])
    /\ importer' = [importer EXCEPT !["worker"].pc = "archived", !["worker"].path = Find]
    /\ UNCHANGED <<jobs, lock, discard, refresh, proj, config, spent>>

\* ... unlink the record and clean Lidarr's queue ...
ExpireUnlink ==
    /\ At("worker", "archived")
    /\ side' = [side EXCEPT ![importer["worker"].path] = NoRecord]
    /\ \/ /\ lidarr' = [lidarr EXCEPT !.queue = FALSE]
          /\ _hide_from_lidarr(TRUE) /\ Works
       \/ UNCHANGED <<lidarr, proj>> /\ Failure
    /\ Goto("worker", "unlinked")
    /\ UNCHANGED <<jobs, lock, discard, refresh, folder, config>>

\* ... remove the files ...
ExpireRemove ==
    /\ At("worker", "unlinked")
    /\ RemoveFolder
    /\ Goto("worker", "removed")
    /\ UNCHANGED <<jobs, lock, discard, refresh, proj, lidarr, config, spent>>

\* ... and release the hold.
ExpireMark ==
    /\ At("worker", "removed")
    /\ proj' = IF proj.status = "lost" THEN proj
               ELSE [proj EXCEPT !.status = "failed", !.hold = FALSE]
    /\ importer' = [importer EXCEPT !["worker"] = ImporterAt("down")]
    /\ UNCHANGED <<jobs, lock, discard, refresh, side, folder, lidarr, config, spent>>

Import(p) == \/ Act(p) \/ Lookup(p) \/ Post(p) \/ Wait(p) \/ CheckPending(p)
             \/ Rescue(p) \/ Copy(p) \/ Rescan(p) \/ Finish(p)

Next ==
    \/ CreateReview \/ _create_review_required
    \/ \E k \in Keys : Enqueue(k) \/ Fallback(k)
    \/ TryLock \/ verification_release_switch \/ Switch \/ Restore
    \/ Claim \/ Start \/ Acquire
    \/ \E p \in Importers : Import(p)
    \/ RequestDiscard \/ Remove \/ Blocklist \/ Archive \/ MarkDiscarded
    \/ Reconcile \/ CountImported \/ CheckQueued
    \/ LidarrRuns \/ RequestCancel \/ RetryFallsDue
    \/ Stop \/ Crash \/ Age \/ Boot
    \/ Expire \/ ExpireUnlink \/ ExpireRemove \/ ExpireMark

Spec == Init /\ [][Next]_vars

-----------------------------------------------------------------------------
(* Properties *)

Unharmed == spent.crashes = 0 /\ spent.failures = 0
Archived == side["discarded"] # NoRecord \/ side["expired"] # NoRecord
Creating == At("worker", "reviewing")
PendingReview ==
    /\ side["out"].state = "pending_review" /\ folder = "audio"
    /\ ~Creating /\ ~At("worker", "archived") /\ discard.pc = "idle"

\* Once a release is archived as discarded or expired, no thread that read its
\* record before brings it into the library any more, although neither discard
\* nor expiry takes the promote lock and a command may be queued in Lidarr:
\* the files are gone before the archive exists, or there is nobody to import
\* them (server.py 7575-7594, 6942-6962).
DiscardIsFinal ==
    [][Archived => lidarr'.imported = lidarr.imported /\ lidarr'.placed = lidarr.placed]_vars

\* Whatever was cancelled, crashed or failed half-way through a promote, retry,
\* switch or reconciliation, files that are neither imported nor given up have a
\* record for which the dashboard offers an action that its endpoint accepts
\* (server.py 6434-6454, dashboard.py 142-170).  The tests know a promoted record
\* by its decision ACCEPT_PROVISIONAL, which SIDECAR_FORMAT_v2.md 107-109 says a
\* promotion does not write: kept as documented, a promotion that was interrupted
\* would leave a record that neither promote nor retry accepts.
HeldIsActionable ==
    (folder = "audio" /\ ~Archived /\ ~Creating /\ discard.pc = "idle")
        => LET r == side["out"]
           IN  \/ r.outcome = "RESCUED" /\ lidarr.placed
               \/ r.outcome = "MANUAL_IMPORTED" /\ config.had
               \/ "promote" \in available_actions(r) /\ _is_promotable(r)
               \/ "retry_import" \in available_actions(r) /\ _is_retryable_verified_import(r)

\* The review-hold invariant: a pending review is on hold, and as long as no
\* job of it is cancelled it is visible and in Lidarr's queue; a review that was
\* discarded or has expired is not in the queue, has no files left, and its
\* record claims a blocklisting only if there was one (server.py 4836-4841,
\* docs/design/REVIEW_HOLD_VISIBLE_TO_LIDARR.md:22). Exempt: the hold of an entry
\* that went with a lost jobs.json (496-500, 519-521), where the same document
\* (53-56) has it survive a restart.
HoldFollowsReview ==
    /\ PendingReview /\ ~config.lost
           => /\ proj.hold
              /\ spent.cancels = 0 => ~proj.hidden /\ lidarr.queue
    /\ (Archived /\ Quiet /\ Unharmed) => ~lidarr.queue /\ folder # "audio"
    /\ Current.blocklisted => lidarr.blocklisted

\* A release keeps a record whatever expires, imports or writes back a stale
\* copy, and wherever the process dies in it: only discard's removal of the
\* folder ever takes the last one (server.py 7575), and unless the process dies
\* right there the archive brings it back (7595; expiry archives first, 6942).
RecordKept ==
    /\ [][Current # NoRecord /\ Current' = NoRecord => discard.pc = "remove"]_vars
    /\ [](Current = NoRecord /\ ~Creating /\ spent.crashes = 0
             => discard.pc \in {"blocklist", "archive"})

\* An operator's release switch stays only if the release came into the library
\* (server.py 7489-7503). Exempt: a crash or failed request, and albums that had
\* files before (config.had), where the code takes the old files for an import.
SwitchUndone ==
    (At("http", "idle") /\ Unharmed /\ lidarr.switched # {})
        => lidarr.imported \/ lidarr.placed \/ config.had
=============================================================================
